---- MODULE Spec2Model ----
(***************************************************************************)
(* The phased event emitter of src/src/event.js (createEventEmitter):      *)
(* the listener registry (targetListenerMap), on, off and dispatchSync     *)
(* with its phases before, begin, ing, end, after and its error sweep.     *)
(*                                                                         *)
(* JavaScript runs a dispatch synchronously on one call stack.  The model  *)
(* keeps that stack explicitly (stack, innermost dispatch last) and takes  *)
(* one step per callback the engine invokes (a listener, the ing function, *)
(* an error listener) and one per return of dispatchSync; everything the   *)
(* engine does between two callbacks is part of the step.                  *)
(*                                                                         *)
(* A listener is a card: a JavaScript listener object together with what   *)
(* its filter and callback do when called (Card).  A scenario is the set   *)
(* of listener objects and dispatchSync arguments a run draws from.        *)
(***************************************************************************)
EXTENDS Integers, Sequences, FiniteSets, TLC

\* Bounds of the model.
MaxDepth == 3       \* dispatches nested on the call stack
MaxListeners == 6   \* listeners registered by top-level on() calls at once
MaxMutations == 3   \* mutator calls made on the attribute
MaxLeaked == 2      \* events left on currentEvent when a top-level dispatch starts

NullTarget == "null"                 \* target omitted, null or undefined
defaultTarget == "defaultTarget"     \* the emitter's private Symbol(null)

PhaseOrder == <<"before", "begin", "ing", "end", "after">>

----------------------------------------------------------------------------
(* Listener objects and the behaviour of their callbacks *)

NoChain ==
    [event |-> "none", isString |-> TRUE, ing |-> "undefined", target |-> NullTarget,
     cancellable |-> TRUE]

\* A listener object {name, callback} registered by on(target, event, phase, .)
Plain(target, event, phase, name) ==
    [target |-> target, event |-> event, phase |-> phase, name |-> name,
     hasPriority |-> FALSE, priority |-> 0, once |-> FALSE,
     filter |-> "none",      \* "none" (no filter) | "pass" | "skip" (returns false) | "throw"
     ret |-> "void",         \* what callback does: "void" | "false" | "throw" | "chain"
     act |-> "none",         \* a call the callback makes: "none" | "on" | "off"
     actCard |-> "none",     \* the listener the callback registers / unregisters
     chain |-> NoChain,      \* the record an after callback returns when ret = "chain"
     missing |-> {}]         \* the keys among "name", "callback" the object lacks

Prio(l, p) == [l EXCEPT !.hasPriority = TRUE, !.priority = p]
Once(l) == [l EXCEPT !.once = TRUE]
Ret(l, r) == [l EXCEPT !.ret = r]
Filter(l, f) == [l EXCEPT !.filter = f]
Act(l, a, c) == [l EXCEPT !.act = a, !.actCard = c]
Chain(l, e, i, t) ==
    [l EXCEPT !.ret = "chain",
              !.chain = [event |-> e, isString |-> TRUE, ing |-> i, target |-> t,
                         cancellable |-> TRUE]]
\* an after callback that returns {event: 42}
ChainNumber(l) ==
    [l EXCEPT !.ret = "chain", !.chain = [NoChain EXCEPT !.event = "42", !.isString = FALSE]]

CardTable ==
    \* priorities and scopes
    [p5 |-> Prio(Plain("A", "e", "before", "p5"), 5),
     p1 |-> Prio(Plain("A", "e", "before", "p1"), 1),
     p3 |-> Prio(Plain("A", "e", "before", "p3"), 3),
     g0 |-> Plain(NullTarget, "e", "before", "g0"),
     g1 |-> Plain(NullTarget, "e", "before", "g1"),
     b1 |-> Plain("B", "e", "before", "b1"),
     \* veto
     v1 |-> Prio(Ret(Plain("A", "e", "before", "v1"), "false"), 1),
     v2 |-> Once(Ret(Plain(NullTarget, "e", "before", "v2"), "false")),
     w1 |-> Plain("A", "e", "before", "w1"),
     w2 |-> Prio(Plain(NullTarget, "e", "before", "w2"), -1),
     bg |-> Plain(NullTarget, "e", "begin", "bg"),
     en |-> Plain("A", "e", "end", "en"),
     af |-> Plain(NullTarget, "e", "after", "af"),
     \* once
     o1 |-> Once(Plain("A", "e", "before", "o1")),
     o2 |-> Once(Plain(NullTarget, "e", "begin", "o2")),
     o3 |-> Once(Plain("A", "e", "end", "o3")),
     o4 |-> Once(Plain(NullTarget, "e", "after", "dup")),
     o5 |-> Once(Plain("A", "e", "after", "o5")),
     d1 |-> Plain("A", "e", "after", "dup"),
     \* callbacks that call on() and off() during a sweep
     s1 |-> Prio(Act(Plain("A", "e", "begin", "s1"), "on", "x1"), 2),
     s2 |-> Prio(Act(Plain("A", "e", "begin", "s2"), "off", "s3"), 1),
     s3 |-> Plain("A", "e", "begin", "s3"),
     s4 |-> Prio(Act(Plain(NullTarget, "e", "begin", "s4"), "on", "x2"), 1),
     s5 |-> Act(Plain("A", "e", "begin", "s5"), "off", "x1"),
     x1 |-> Plain(NullTarget, "e", "begin", "x1"),
     x2 |-> Plain(NullTarget, "e", "begin", "x2"),
     \* failures and error listeners
     t1 |-> Ret(Plain("A", "e", "begin", "t1"), "throw"),
     t2 |-> Ret(Plain(NullTarget, "e", "end", "t2"), "throw"),
     t3 |-> Filter(Plain("A", "e", "before", "t3"), "throw"),
     f1 |-> Filter(Plain("A", "e", "begin", "f1"), "skip"),
     fp |-> Prio(Filter(Plain(NullTarget, "e", "before", "fp"), "pass"), 2),
     eP |-> Plain("A", "error", "begin", "eP"),
     eA |-> Plain("A", "error", "all", "eA"),
     gP |-> Plain(NullTarget, "error", "begin", "gP"),
     gA |-> Plain(NullTarget, "error", "all", "gA"),
     eO |-> Plain("A", "error", "end", "eO"),
     eI |-> Plain("A", "error", "ing", "eI"),
     eT |-> Ret(Plain(NullTarget, "error", "ing", "eT"), "throw"),
     eB |-> Plain("B", "error", "all", "eB"),
     \* after listeners that return a dispatch record
     c1 |-> Prio(Chain(Plain("A", "e", "after", "c1"), "n", "fn", "A"), 1),
     c2 |-> Plain("A", "e", "after", "c2"),
     c3 |-> Chain(Plain(NullTarget, "n", "after", "c3"), "m", "undefined", NullTarget),
     c4 |-> Chain(Plain(NullTarget, "e", "after", "c4"), "n", "notfn", "A"),
     c5 |-> Prio(ChainNumber(Plain("A", "e", "after", "c5")), 2),
     n1 |-> Plain("A", "n", "before", "n1"),
     n2 |-> Ret(Plain(NullTarget, "n", "end", "n2"), "throw"),
     m1 |-> Plain(NullTarget, "m", "begin", "m1"),
     eN |-> Ret(Plain("A", "error", "end", "eN"), "throw"),
     eF |-> Plain("A", "error", "after", "eF"),
     \* listeners that share a list, two of them a name
     r1 |-> Prio(Plain("A", "e", "before", "dup"), 5),
     r2 |-> Plain("A", "e", "before", "dup"),
     r3 |-> Once(Plain("A", "e", "begin", "r3")),
     r4 |-> Plain(NullTarget, "e", "before", "r4"),
     \* callbacks that write to what the view gave them
     wr |-> Prio(Act(Plain("A", "e", "before", "wr"), "write", "none"), 2),
     wa |-> Act(Plain("A", "e", "end", "wa"), "assign", "none"),
     \* listeners on an attribute
     nb |-> Ret(Plain("N", "changeValue", "before", "nb"), "false"),
     ne |-> Plain("N", "changeValue", "end", "ne"),
     nE |-> Plain("N", "error", "all", "nE"),
     nt |-> Ret(Plain("N", "changeValue", "begin", "nt"), "throw"),
     nx |-> Prio(Ret(Plain("N", "changeValue", "end", "nx"), "throw"), 1),
     na |-> Chain(Plain("N", "changeValue", "after", "na"), "n", "fn", NullTarget),
     sb |-> Ret(Plain("N", "changeStatus", "before", "sb"), "false"),
     kb |-> Ret(Plain(NullTarget, "changeCollection", "before", "kb"), "false"),
     \* arguments on() and off() refuse
     q1 |-> Plain("A", "e", "ing", "q1"),
     q2 |-> Plain("A", "e", "all", "q2"),
     q3 |-> [Plain("A", "e", "before", "q3") EXCEPT !.missing = {"callback"}],
     q4 |-> [Plain(NullTarget, "e", "begin", "q4") EXCEPT !.missing = {"name"}],
     q5 |-> Plain("A", "error", "middle", "q5"),
     \* an after callback that has its own event dispatched again
     lp |-> Chain(Plain("A", "e", "after", "lp"), "e", "fn", "A")]

CardIds == DOMAIN CardTable
Card(c) == CardTable[c]

\* JavaScript values: a number n/d, a string s, an array a, undefined; "absent" for a
\* property the object does not have
Value(tag, n, d, s) == [tag |-> tag, n |-> n, d |-> d, s |-> s, a |-> <<>>]
Undefined == Value("undefined", 0, 1, "")
Absent == Value("absent", 0, 1, "")
String(s) == Value("string", 0, 1, s)
Number(n, d) == Value("number", n, d, "")
Array(a) == [Value("array", 0, 1, "") EXCEPT !.a = a]

----------------------------------------------------------------------------
(* Numbers.  A finite number is a fraction n/d in lowest terms with d > 0; NaN is    *)
(* 0/0 and Infinity 1/0.  The attribute values of this file are finite or NaN;       *)
(* Infinity occurs as a bound only.                                                  *)

NaN == Number(0, 0)
Infinity == Number(1, 0)
MinusInfinity == Number(-1, 0)

RECURSIVE GCD(_, _)
GCD(a, b) == IF b = 0 THEN a ELSE GCD(b, a % b)

Ratio(n, d) ==
    LET Abs(x) == IF x < 0 THEN -x ELSE x
        g == GCD(Abs(n), Abs(d))
        sign == IF d < 0 THEN -1 ELSE 1
    IN Number((sign * n) \div g, (sign * d) \div g)

IsNaN(v) == v.n = 0 /\ v.d = 0

Plus(x, y) == IF IsNaN(x) \/ IsNaN(y) THEN NaN ELSE Ratio(x.n * y.d + y.n * x.d, x.d * y.d)
Minus(x, y) == IF IsNaN(x) \/ IsNaN(y) THEN NaN ELSE Ratio(x.n * y.d - y.n * x.d, x.d * y.d)
Times(x, y) == IF IsNaN(x) \/ IsNaN(y) THEN NaN ELSE Ratio(x.n * y.n, x.d * y.d)
Over(x, y) == IF IsNaN(x) \/ IsNaN(y) THEN NaN ELSE Ratio(x.n * y.d, x.d * y.n)

\* x < y, for numbers that are not NaN
Less(x, y) == IF x.d = 0 /\ y.d = 0 THEN x.n < y.n ELSE x.n * y.d < y.n * x.d

RECURSIVE PowerOf(_, _)
PowerOf(x, k) == IF k = 0 THEN Number(1, 1) ELSE Times(x, PowerOf(x, k - 1))

\* the square root of a square
Root(k) == CHOOSE r \in 0..k : r * r = k

\* the powers these numbers represent: whole exponents, and 1/2 of a square or a
\* negative number
HasPower(x, e) ==
    \/ e.d = 1 \/ IsNaN(x) \/ x.n < 0
    \/ e = Number(1, 2) /\ \A k \in {x.n, x.d} : \E r \in 0..k : r * r = k

\* Math.pow(x, e)
MathPow(x, e) ==
    IF e.n = 0 /\ e.d = 1 THEN Number(1, 1)
    ELSE IF IsNaN(x) THEN NaN
    ELSE IF e.d = 1
    THEN IF e.n > 0 THEN PowerOf(x, e.n)
         ELSE IF x.n = 0 THEN Infinity
         ELSE PowerOf(Over(Number(1, 1), x), -e.n)
    ELSE IF x.n < 0 THEN NaN
    ELSE Number(Root(x.n), Root(x.d))

\* Math.floor, and with it Math.ceil, Math.round and Math.trunc
MathFloor(v) == IF v.d = 0 THEN v ELSE Number(v.n \div v.d, 1)

\* throwIfIsNotComparableNumber
IsComparableNumber(v) == v.tag = "number" /\ ~IsNaN(v)

\* throwIfIsNotDivisibleNumber: a finite number other than zero
IsDivisibleNumber(v) == v.tag = "number" /\ v.d # 0 /\ v.n # 0

\* clamp(value, min, max) throws unless its three arguments are comparable numbers
clampThrows(value, min, max) ==
    ~(IsComparableNumber(value) /\ IsComparableNumber(min) /\ IsComparableNumber(max))

\* a clamp that forgets max
clampLowerOnly(value, min, max) == IF Less(value, min) THEN min ELSE value

\* Math.max(Math.min(value, max), min)
clamp(value, min, max) ==
    LET least == IF Less(max, value) THEN max ELSE value
    IN IF Less(least, min) THEN min ELSE least

\* a falsy value: undefined, "", 0, NaN
Falsy(v) ==
    \/ v.tag \in {"undefined", "absent"}
    \/ v.tag = "string" /\ v.s = ""
    \/ v.tag = "number" /\ v.n = 0

\* the arguments of a dispatchSync(event, ing, {target, status: {cancellable}}) call
\* (type, preData and the one field of context the callers in this file use)
Call(event, target, cancellable, ing) ==
    [event |-> event, target |-> target, cancellable |-> cancellable, ing |-> ing,
     type |-> "null", preData |-> Undefined, context |-> Absent,
     eventIsString |-> TRUE,     \* typeof event === "string"
     optionsIsPlain |-> TRUE]    \* isPlainObject(options)

With(call, type, preData, context) ==
    [call EXCEPT !.type = type, !.preData = preData, !.context = context]

\* The listener objects top-level code registers and the dispatchSync calls it makes.
Scenarios ==
    {[cards |-> {"p5", "p1", "p3", "g0", "g1", "b1"},
      calls |-> {Call("e", "A", TRUE, "fn"), Call("e", "B", TRUE, "fn"),
                 Call("e", NullTarget, TRUE, "fn")}],
     [cards |-> {"v1", "v2", "w1", "w2", "bg", "en", "af"},
      calls |-> {Call("e", "A", TRUE, "fn"), Call("e", "A", FALSE, "fn"),
                 Call("e", "B", TRUE, "fn"), Call("e", "B", FALSE, "fn")}],
     [cards |-> {"o1", "o2", "o3", "o4", "o5", "d1"},
      calls |-> {Call("e", "A", TRUE, "fn"), Call("e", NullTarget, TRUE, "fn")}],
     [cards |-> {"s1", "s2", "s3", "s4", "s5", "x1"},
      calls |-> {Call("e", "A", TRUE, "fn"), Call("e", NullTarget, TRUE, "fn")}],
     [cards |-> {"t1", "f1", "eP", "eA", "gP", "gA", "eO"},
      calls |-> {Call("e", "A", TRUE, "fn"), Call("e", "B", TRUE, "fn")}],
     [cards |-> {"t2", "t3", "eI", "eT", "eA", "eB", "gA"},
      calls |-> {Call("e", "A", TRUE, "fn"), Call("e", "A", TRUE, "throws"),
                 Call("e", "B", TRUE, "throws")}],
     [cards |-> {"c1", "c2", "c3", "c4", "c5", "n1", "n2", "m1", "eN", "eF"},
      calls |-> {Call("e", "A", TRUE, "fn")}],
     \* mixed
     [cards |-> {"p3", "v1", "o1", "v2", "t3", "fp", "eA"},
      calls |-> {Call("e", "A", TRUE, "fn"), Call("e", "A", FALSE, "fn"),
                 Call("e", NullTarget, TRUE, "fn")}],
     [cards |-> {"s1", "o2", "t1", "gP", "c1", "o4", "n2"},
      calls |-> {Call("e", "A", TRUE, "fn"), Call("e", "B", TRUE, "throws")}],
     \* writes to the view
     [cards |-> {"wr", "v1", "w2", "bg", "wa", "af", "eA"},
      calls |-> {With(Call("e", "A", TRUE, "fn"), "t", Number(0, 1), Number(1, 1)),
                 With(Call("e", "A", FALSE, "fn"), "t", Number(0, 1), Number(1, 1))}]}

\* Dispatches that nest: after callbacks whose records lead from "e" to "n" to "m",
\* callbacks and an ing that throw, a veto, and an after callback whose record has
\* its own event dispatched again.
LiveScenarios ==
    {[cards |-> {"c1", "c2", "c3", "c4", "c5", "n1", "n2", "m1", "eN", "eF"},
      calls |-> {Call("e", "A", TRUE, "fn")}],
     [cards |-> {"t2", "t3", "eI", "eT", "eA", "v1", "af"},
      calls |-> {Call("e", "A", TRUE, "fn"), Call("e", "A", TRUE, "throws")}],
     [cards |-> {"lp", "p1", "bg", "en", "af", "b1"},
      calls |-> {Call("e", "A", TRUE, "fn"), Call("e", "B", TRUE, "fn")}]}

\* Client code that keeps the function on() returns and calls it later.
RegScenarios ==
    {[cards |-> {"r1", "r2", "r3", "r4"},
      calls |-> {Call("e", "A", TRUE, "fn")}],
     \* client calls that break a precondition, next to calls that keep it
     [cards |-> {"r1", "r4", "eI", "q1", "q2", "q3", "q4", "q5"},
      calls |-> {Call("e", "A", TRUE, "fn"),
                 Call("e", "A", TRUE, "notfn"),
                 [Call("42", "A", TRUE, "fn") EXCEPT !.eventIsString = FALSE],
                 [Call("e", "A", TRUE, "default") EXCEPT !.optionsIsPlain = FALSE]}]}

----------------------------------------------------------------------------
(* The listener registry: WeakMap target -> Map "event:phase" -> Listener[] *)

MapDelete(m, k) == [x \in DOMAIN m \ {k} |-> m[x]]
MapSet(m, k, v) == [x \in DOMAIN m \cup {k} |-> IF x = k THEN v ELSE m[x]]
EmptyMap == [x \in {} |-> <<>>]

\* a splice that removes the listener and every listener after it
SpliceOutRest(list, index) == SubSeq(list, 1, index - 1)

\* list.splice(index, 1), index counted from 1
SpliceOut(list, index) == SubSeq(list, 1, index - 1) \o SubSeq(list, index + 1, Len(list))
\* list.splice(i, 0, c), i counted from 0
SpliceIn(list, i, c) == SubSeq(list, 1, i) \o <<c>> \o SubSeq(list, i + 1, Len(list))
\* list.slice()
Slice(list) == list

\* a registry that keeps the listeners of every target in one map
TargetKeyOneMap(target) == defaultTarget

\* target ??= defaultTarget
TargetKey(target) == IF target = NullTarget THEN defaultTarget ELSE target

\* `${event}:${phase}`
EventName(event, phase) == <<event, phase>>

getListeners(reg, target, event, phase) ==
    LET t == TargetKey(target) IN
    IF t \notin DOMAIN reg THEN <<>>
    ELSE IF EventName(event, phase) \notin DOMAIN reg[t] THEN <<>>
    ELSE reg[t][EventName(event, phase)]

\* a deleteListener that leaves an empty list in the map
deleteListenerKeepsEmpty(reg, t, eventName, index) ==
    MapSet(reg, t, MapSet(reg[t], eventName, SpliceOut(reg[t][eventName], index)))

deleteListener(reg, t, eventName, index) ==
    LET list == SpliceOut(reg[t][eventName], index)
        map == IF Len(list) = 0 THEN MapDelete(reg[t], eventName)
               ELSE MapSet(reg[t], eventName, list)
    IN IF DOMAIN map = {} THEN MapDelete(reg, t) ELSE MapSet(reg, t, map)

\* listener.priority ?? 0
PriorityOf(c) == IF Card(c).hasPriority THEN Card(c).priority ELSE 0

\* while (i < list.length && (list[i].priority ?? 0) > priority) i++
RECURSIVE ScanFrom(_, _, _)
ScanFrom(list, priority, i) ==
    IF i < Len(list) /\ PriorityOf(list[i + 1]) > priority
    THEN ScanFrom(list, priority, i + 1)
    ELSE i

\* an on() that appends the listener to the list
InsertAtEnd(list, priority) == Len(list)

\* the index at which on() inserts a listener of that priority, counted from 0
InsertIndex(list, priority) == ScanFrom(list, priority, 0)

\* the phases on() and off() accept for an event name
ExpectedPhasesAnyEvent(event) == {"before", "ing", "begin", "end", "after", "all"}

ExpectedPhases(event) ==
    IF event = "error" THEN {"before", "ing", "begin", "end", "after", "all"}
    ELSE {"before", "begin", "end", "after"}

\* the guards of on(), off() and dispatchSync(): TRUE when the call throws before
\* it has read or written the registry
onThrows(event, phase, listener) ==
    \/ phase \notin ExpectedPhases(event)
    \/ listener.missing # {}

\* the client passes listener.name as name: undefined when the object has none
offThrows(event, phase, listener) ==
    \/ phase \notin ExpectedPhases(event)
    \/ "name" \in listener.missing

dispatchSyncThrows(call) ==
    \/ ~call.eventIsString
    \/ call.ing = "notfn"
    \/ ~call.optionsIsPlain

on(reg, target, event, phase, c) ==
    LET t == TargetKey(target)
        eventName == EventName(event, phase)
        targetMap == IF t \in DOMAIN reg THEN reg[t] ELSE EmptyMap
        list == IF eventName \in DOMAIN targetMap THEN targetMap[eventName] ELSE <<>>
    IN MapSet(reg, t, MapSet(targetMap, eventName,
                             SpliceIn(list, InsertIndex(list, PriorityOf(c)), c)))

\* list.findIndex(l => l.name === name), counted from 1; 0 when there is none
FindIndex(list, name) ==
    IF \E i \in 1..Len(list) : Card(list[i]).name = name
    THEN CHOOSE i \in 1..Len(list) :
            /\ Card(list[i]).name = name
            /\ \A j \in 1..(i - 1) : Card(list[j]).name # name
    ELSE 0

off(reg, target, event, phase, name) ==
    LET t == TargetKey(target)
        eventName == EventName(event, phase)
    IN IF t \notin DOMAIN reg THEN reg
       ELSE IF eventName \notin DOMAIN reg[t] THEN reg
       ELSE LET index == FindIndex(reg[t][eventName], name)
            IN IF index # 0 THEN deleteListener(reg, t, eventName, index) ELSE reg

\* The function on() returns: it keeps the listener and the list it was put in.  A
\* list that off() or the function has emptied is dropped from its map, and on()
\* makes a new one: from then on the function looks at a list that stays empty
\* (stale).
NoClosure == [card |-> "none", stale |-> FALSE]
Closure(c) == [card |-> c, stale |-> FALSE]

Kept(u, reg) ==
    IF u.card = "none" THEN u
    ELSE [u EXCEPT !.stale = @ \/ getListeners(reg, Card(u.card).target, Card(u.card).event,
                                               Card(u.card).phase) = <<>>]

\* list.findIndex(l => l === listener), counted from 1; 0 when there is none
ClosureIndex(list, c) ==
    IF \E i \in 1..Len(list) : list[i] = c
    THEN CHOOSE i \in 1..Len(list) : list[i] = c /\ \A j \in 1..(i - 1) : list[j] # c
    ELSE 0

\* () => { const index = ...; if (index !== -1) deleteListener(...) }
Unregister(reg, u) ==
    LET l == Card(u.card)
        list == IF u.stale THEN <<>> ELSE getListeners(reg, l.target, l.event, l.phase)
        index == ClosureIndex(list, u.card)
    IN IF index # 0
       THEN deleteListener(reg, TargetKey(l.target), EventName(l.event, l.phase), index)
       ELSE reg

\* the listeners in the registry
RegisteredIn(reg) ==
    UNION {UNION {{reg[t][k][i] : i \in 1..Len(reg[t][k])} : k \in DOMAIN reg[t]} :
           t \in DOMAIN reg}

VARIABLES
    scenario,           \* the listener objects and calls this run draws from
    targetListenerMap,  \* the registry
    stack,              \* the dispatchSync calls in progress, innermost last
    regOrder,           \* history: the registered listeners, earliest on() first
    fired,              \* history: invocations of each once listener since its on()
    unregister,         \* the function returned by on() that client code holds
    api,                \* history: the last calls of client code, with the registry before
    attr,               \* the event attribute of this run and its action's closure variables
    currentEvent        \* the emitter's current event view, with its parentEvent chain

vars == <<scenario, targetListenerMap, stack, regOrder, fired, unregister, api, attr,
          currentEvent>>

----------------------------------------------------------------------------
(* Attribute actions: withNumberAction, withStringAction, withStatusAction,          *)
(* withCollectionAction.  The attribute object is the dispatch target AttrTarget.    *)

AttrTarget == "N"

\* a min or max option: a number, or a function that returns the current `limit`
Const(v) == [fn |-> FALSE, v |-> v]
Getter == [fn |-> TRUE, v |-> Undefined]

\* history: one call of a mutator
NoMutation == [op |-> "none", arg |-> Undefined, pre |-> Undefined, post |-> Undefined,
               min |-> Undefined, max |-> Undefined, outcome |-> "none"]

\* the closure variables of an action (_value or _status, constrain, statusList), the
\* value `limit` a getter bound returns, and history: calls, last, prev, and issued,
\* the elements whose method the last issue call invoked
NoAttr ==
    [kind |-> "none", value |-> Undefined, min |-> Const(MinusInfinity),
     max |-> Const(Infinity), integerStrategy |-> "null", limit |-> Undefined,
     statusList |-> <<>>, calls |-> 0, last |-> NoMutation, prev |-> NoMutation,
     issued |-> <<>>]

\* withNumberAction(emitter, attr, {min, max, integerStrategy}) on an attribute of value v
withNumberAction(v, min, max, integerStrategy) ==
    [NoAttr EXCEPT !.kind = "number", !.value = IF IsNaN(v) THEN Number(0, 1) ELSE v,
                   !.min = min, !.max = max, !.integerStrategy = integerStrategy]

withStringAction(v) == [NoAttr EXCEPT !.kind = "string", !.value = v]

withStatusAction(preStatus, statusList) ==
    [NoAttr EXCEPT !.kind = "status", !.statusList = statusList,
                   !.value = IF Falsy(preStatus) THEN statusList[1] ELSE preStatus]

withCollectionAction == [NoAttr EXCEPT !.kind = "collection", !.value = Array(<<>>)]

getIntegerStrategy(integerStrategy, v) ==
    LET MathCeil(x) == Minus(Number(0, 1), MathFloor(Minus(Number(0, 1), x)))
    IN CASE integerStrategy = "floor" -> MathFloor(v)
         [] integerStrategy = "ceil" -> MathCeil(v)
         [] integerStrategy = "round" -> MathFloor(Plus(v, Number(1, 2)))
         [] integerStrategy = "trunc" -> IF v.n < 0 THEN MathCeil(v) ELSE MathFloor(v)
         [] OTHER -> v

\* Number(max()) || 0
NumberOrZero(v) == IF v.tag = "number" /\ ~Falsy(v) /\ ~IsNaN(v) THEN v ELSE Number(0, 1)

\* the bounds getClampStrategy passes to clamp
BoundNow(b, limit) == IF b.fn THEN NumberOrZero(limit) ELSE b.v

\* an integer strategy applied before the clamp
constrainRoundsFirst(a, v) ==
    clamp(getIntegerStrategy(a.integerStrategy, v),
          BoundNow(a.min, a.limit), BoundNow(a.max, a.limit))

\* constrain = (v) => toInteger(toClamped(v)), where clamp does not throw
constrain(a, v) ==
    getIntegerStrategy(a.integerStrategy,
                       clamp(v, BoundNow(a.min, a.limit), BoundNow(a.max, a.limit)))

\* the arithmetic of a number mutator, before constrain
NumberOp(type, v, num) ==
    CASE type = "add" -> Plus(v, num)
      [] type = "subtract" -> Minus(v, num)
      [] type = "multiply" -> Times(v, num)
      [] type = "divide" -> Over(v, num)
      [] type = "pow" -> MathPow(v, num)
      [] OTHER -> num

\* statusList.indexOf(v), from 1; 0 when absent
IndexOf(list, v) ==
    IF \E i \in 1..Len(list) : list[i] = v /\ ~(v.tag = "number" /\ IsNaN(v))
    THEN CHOOSE i \in 1..Len(list) : list[i] = v /\ \A j \in 1..(i - 1) : list[j] # v
    ELSE 0

\* statusList[index + 1] || statusList[0]
changeToNextStatus(list, status) ==
    LET index == IndexOf(list, status)
    IN IF index = 0 \/ index = Len(list) THEN list[1]
       ELSE IF Falsy(list[index + 1]) THEN list[1] ELSE list[index + 1]

\* statusList[index - 1] || statusList[statusList.length - 1]
changeToLastStatus(list, status) ==
    LET index == IndexOf(list, status)
    IN IF index = 0 THEN list[1]
       ELSE IF index = 1 THEN list[Len(list)]
       ELSE IF Falsy(list[index - 1]) THEN list[Len(list)] ELSE list[index - 1]

Includes(list, v) == \E i \in 1..Len(list) : list[i] = v

RECURSIVE Without(_, _)
\* for (const e of elements) { i = _value.indexOf(e); if (i !== -1) _value.splice(i, 1) }
Without(value, elements) ==
    IF elements = <<>> THEN value
    ELSE LET i == IndexOf(value, Head(elements))
         IN Without(IF i = 0 THEN value ELSE SpliceOut(value, i), Tail(elements))

RECURSIVE Distinct(_)
\* Array.from(new Set(elements))
Distinct(elements) ==
    IF elements = <<>> THEN <<>>
    ELSE LET init == Distinct(SubSeq(elements, 1, Len(elements) - 1))
             e == elements[Len(elements)]
         IN IF Includes(init, e) THEN init ELSE Append(init, e)

\* the elements of an add call that _value does not include
ToAdd(value, elements) ==
    LET New(e) == ~Includes(value, e) IN SelectSeq(elements, New)

\* issue(order, filter): the elements the filter passes, all of them without a filter;
\* a filter is "all" or the one element it passes
Targets(value, filter) ==
    LET Passes(e) == filter \in {Undefined, String("all"), e} IN SelectSeq(value, Passes)

\* issue without a filter function makes no dispatchSync call
Dispatches(m) == ~(m.op = "issue" /\ m.arg = Undefined)

\* a mutator call m = [op, arg] throws before it dispatches
MutatorThrows(a, m) ==
    CASE a.kind = "number" ->
           IF m.op = "divide" THEN ~IsDivisibleNumber(m.arg) ELSE ~IsComparableNumber(m.arg)
      [] a.kind = "status" -> m.op = "changeStatus" /\ ~Includes(a.statusList, m.arg)
      [] OTHER -> FALSE

\* the dispatchSync call of a mutator m = [op, arg]
MutatorCall(a, m) ==
    LET event == CASE a.kind = "status" -> "changeStatus"
                   [] m.op = "issue" -> "issueOrder"
                   [] a.kind = "collection" -> "changeCollection"
                   [] OTHER -> "changeValue"
        type == CASE m.op = "changeStatus" -> "to"
                  [] m.op = "issue" -> "collection"
                  [] m.op = "changeToNextStatus" -> "next"
                  [] m.op = "changeToLastStatus" -> "last"
                  [] OTHER -> m.op
        context == IF a.kind = "collection"
                   THEN CASE m.op = "add" -> Array(ToAdd(a.value.a, m.arg.a))
                          [] m.op = "replace" -> Array(Distinct(m.arg.a))
                          [] m.op = "issue" -> Array(Targets(a.value.a, m.arg))
                          [] OTHER -> m.arg
                   ELSE IF m.op \in {"changeToNextStatus", "changeToLastStatus"}
                   THEN Absent
                   ELSE m.arg
    IN With(Call(event, AttrTarget, TRUE, "mutator"), type,
            IF m.op = "issue" THEN Undefined ELSE a.value, context)

\* the value a mutator's ing function assigns before constrain
Assigned(a, type, context) ==
    CASE a.kind = "number" -> NumberOp(type, a.value, context)
      [] a.kind = "string" -> context
      [] a.kind = "status" ->
           (CASE type = "to" -> context
              [] type = "next" -> changeToNextStatus(a.statusList, a.value)
              [] OTHER -> changeToLastStatus(a.statusList, a.value))
      [] OTHER ->
           (CASE type = "add" -> Array(a.value.a \o context.a)
              [] type = "remove" -> Array(Without(a.value.a, context.a))
              [] type = "collection" -> a.value
              [] OTHER -> context)

\* clamp throws in the ing function of a number mutator
IngThrows(a, type, context) ==
    /\ a.kind = "number"
    /\ clampThrows(Assigned(a, type, context),
                   BoundNow(a.min, a.limit), BoundNow(a.max, a.limit))

\* the closure variables after a mutator's ing function ran or threw
IngAssigns(a, type, context) ==
    LET raw == Assigned(a, type, context)
        value == IF a.kind # "number" \/ IngThrows(a, type, context) THEN raw
                 ELSE constrain(a, raw)
    IN [a EXCEPT !.value = value,
                 !.issued = IF type = "collection" THEN context.a ELSE @,
                 !.last = [@ EXCEPT !.post = value,
                                    !.min = BoundNow(a.min, a.limit),
                                    !.max = BoundNow(a.max, a.limit),
                                    !.outcome = IF IngThrows(a, type, context)
                                                THEN "failed" ELSE "changed"]]

\* a call of a mutator
M(op, arg) == [op |-> op, arg |-> arg]

\* An attribute, the values its getter bound takes, the mutator calls client code
\* makes and the listeners it registers.
AttrScenarios ==
    {\* whole bounds
     [attr |-> withNumberAction(Number(0, 1), Const(Number(0, 1)), Const(Number(10, 1)), "floor"),
      limits |-> {},
      mutators |-> {M("add", Number(39, 5)), M("add", Number(5, 1)), M("subtract", Number(1, 2)),
                    M("multiply", Number(3, 2)), M("divide", Number(4, 1)), M("divide", Number(0, 1)),
                    M("set", Number(-3, 1)), M("add", NaN)},
      cards |-> {"nb", "ne"}, calls |-> {}]}
    \cup
    \* bounds that are not whole numbers, under each integer strategy
    {[attr |-> withNumberAction(Number(1, 1), Const(Number(1, 2)), Const(Number(19, 2)), st),
      limits |-> {},
      mutators |-> {M("set", Number(0, 1)), M("set", Number(12, 1)), M("add", Number(13, 4)),
                    M("multiply", Number(-1, 1))},
      cards |-> {"nb"}, calls |-> {}] : st \in {"floor", "ceil", "round", "trunc"}}
    \cup
    {\* powers; no integer strategy
     [attr |-> withNumberAction(Number(-4, 1), Const(Number(-10, 1)), Const(Number(10, 1)), "null"),
      limits |-> {},
      mutators |-> {M("pow", Number(1, 2)), M("pow", Number(2, 1)), M("add", Number(1, 1)),
                    M("set", Number(4, 1)), M("multiply", Number(-1, 1))},
      cards |-> {"nE", "ne", "na"}, calls |-> {}],
     \* listeners that throw
     [attr |-> withNumberAction(Number(0, 1), Const(Number(0, 1)), Const(Number(10, 1)),
                                "null"),
      limits |-> {},
      mutators |-> {M("add", Number(2, 1)), M("set", Number(5, 1))},
      cards |-> {"nt", "nx", "ne", "na", "nE"}, calls |-> {}],
     \* max is a function
     [attr |-> [withNumberAction(Number(2, 1), Const(Number(0, 1)), Getter, "null")
                   EXCEPT !.limit = Number(5, 1)],
      limits |-> {Number(5, 1), Number(8, 1), NaN, Undefined},
      mutators |-> {M("add", Number(7, 1)), M("set", Number(6, 1)), M("subtract", Number(1, 1))},
      cards |-> {"nb"}, calls |-> {}],
     \* no bounds
     [attr |-> withNumberAction(NaN, Const(MinusInfinity), Const(Infinity), "round"),
      limits |-> {},
      mutators |-> {M("add", Number(5, 2)), M("multiply", Number(-3, 1)), M("pow", Number(2, 1))},
      cards |-> {"ne"}, calls |-> {}],
     [attr |-> withStringAction(String("a")),
      limits |-> {},
      mutators |-> {M("set", String("x")), M("set", String("")), M("set", String("a"))},
      cards |-> {"nb", "ne", "nE"}, calls |-> {}],
     [attr |-> withStatusAction(Undefined, <<String("a"), String("b"), String("c")>>),
      limits |-> {},
      mutators |-> {M("changeStatus", String("c")), M("changeStatus", String("z")),
                    M("changeStatus", String("b")),
                    M("changeToNextStatus", Undefined), M("changeToLastStatus", Undefined)},
      cards |-> {"sb"}, calls |-> {}],
     [attr |-> withStatusAction(Number(2, 1), <<Number(1, 1), Number(0, 1), Number(2, 1)>>),
      limits |-> {},
      mutators |-> {M("changeStatus", Number(0, 1)), M("changeStatus", Number(3, 1)),
                    M("changeToNextStatus", Undefined), M("changeToLastStatus", Undefined)},
      cards |-> {"sb"}, calls |-> {}],
     \* a preStatus that is not in the list
     [attr |-> withStatusAction(String("z"), <<String("a"), String("b")>>),
      limits |-> {},
      mutators |-> {M("changeStatus", String("b")), M("changeToNextStatus", Undefined),
                    M("changeToLastStatus", Undefined)},
      cards |-> {"sb"}, calls |-> {}],
     [attr |-> withCollectionAction,
      limits |-> {},
      mutators |-> {M("add", Array(<<String("x")>>)),
                    M("add", Array(<<String("y"), String("y")>>)),
                    M("remove", Array(<<String("x"), String("z")>>)),
                    M("replace", Array(<<String("y"), String("z"), String("y")>>)),
                    M("issue", Undefined), M("issue", String("all")),
                    M("issue", String("y"))},
      cards |-> {"kb"}, calls |-> {}]}

----------------------------------------------------------------------------
(* dispatchSync: one frame per call in progress *)

\* the locals of a dispatchSync call; phases, sweeps, calls and atStart are history
NewFrame(call) ==
    [event |-> call.event, target |-> call.target, cancellable |-> call.cancellable,
     ing |-> call.ing, type |-> call.type, preData |-> call.preData,
     context |-> call.context,
     options |-> call,        \* the arguments of the call
     handed |-> [cancellable |-> call.cancellable, context |-> call.context],
                              \* the last status and context records a callback wrote to
     phase |-> "null",        \* _phase
     pc |-> "new",            \* "sweep" | "ing" | "error" | "return"
     tier |-> 0, snap |-> <<>>, idx |-> 1,
     err |-> "none",          \* the exception the catch clause caught
     thrown |-> "none",       \* the exception leaving dispatchSync
     outcome |-> "running",   \* "completed" | "vetoed" | "caught" | "threw"
     currentData |-> FALSE,   \* the view has a currentData property
     data |-> Absent,         \* what the ing function returned
     phases |-> <<>>,         \* the values _phase has taken
     sweeps |-> <<>>,         \* the listener lists swept so far
     calls |-> <<>>,          \* the filters and callbacks called so far
     atStart |-> <<>>,        \* the lists of the current phase when it started
     nested |-> <<>>,         \* the dispatchSync calls made by the after loops that returned
     parentEvent |-> currentEvent]  \* eventInfo.parentEvent

\* an error sweep that calls the global listeners first
SweepKeyGlobalFirst(f, kind, tier) ==
    IF kind = "error"
    THEN [target |-> IF tier <= 2 THEN NullTarget ELSE f.target,
          event |-> "error",
          phase |-> IF tier \in {1, 3} THEN f.phase ELSE "all"]
    ELSE [target |-> IF tier = 1 THEN f.target ELSE NullTarget,
          event |-> f.event,
          phase |-> f.phase]

\* the list a sweep reads: getListeners(target | null, event | "error", phase | "all")
SweepKey(f, kind, tier) ==
    IF kind = "error"
    THEN [target |-> IF tier <= 2 THEN f.target ELSE NullTarget,
          event |-> "error",
          phase |-> IF tier \in {1, 3} THEN f.phase ELSE "all"]
    ELSE [target |-> IF tier = 1 THEN f.target ELSE NullTarget,
          event |-> f.event,
          phase |-> f.phase]

LastTier(kind) == IF kind = "error" THEN 4 ELSE 2

ListOf(reg, k) == getListeners(reg, k.target, k.event, k.phase)

\* const list = getListeners(...); for (const l of list.slice()) ...
StartTier(f, reg, kind, tier) ==
    LET k == SweepKey(f, kind, tier)
        list == ListOf(reg, k)
    IN [f EXCEPT !.pc = kind, !.tier = tier, !.snap = Slice(list), !.idx = 1,
                 !.sweeps = Append(@, [kind |-> kind, tier |-> tier, phase |-> f.phase,
                                       key |-> k, start |-> list,
                                       atPhaseStart |-> f.atStart[tier]])]

\* a loop over the list itself instead of list.slice()
RemainingLive(f, reg) ==
    LET kind == f.pc
        t == IF kind = "error" THEN (IF f.tier <= 2 THEN f.target ELSE NullTarget)
             ELSE (IF f.tier = 1 THEN f.target ELSE NullTarget)
        e == IF kind = "error" THEN "error" ELSE f.event
        p == IF kind = "error" /\ f.tier \in {2, 4} THEN "all" ELSE f.phase
        live == getListeners(reg, t, e, p)
    IN SubSeq(live, f.idx, Len(live))

\* the listeners the running for-of loop has still to visit
Remaining(f, reg) == SubSeq(f.snap, f.idx, Len(f.snap))

\* a pipeline that leaves out begin
NextPhaseSkipsBegin(p) ==
    IF p = "before" THEN "ing" ELSE IF p = "ing" THEN "end" ELSE "after"

\* try { before(); begin(); ing(); end(); after() }
NextPhase(p) == PhaseOrder[(CHOOSE i \in 1..Len(PhaseOrder) : PhaseOrder[i] = p) + 1]

EnterPhase(f, reg, p) ==
    LET f1 == [f EXCEPT !.phase = p, !.phases = Append(@, p)] IN
    IF p = "ing" THEN [f1 EXCEPT !.pc = "ing"]
    ELSE StartTier([f1 EXCEPT !.atStart =
                        [t \in 1..2 |-> ListOf(reg, SweepKey(f1, "sweep", t))]],
                   reg, "sweep", 1)

Finish(f, outcome) == [f EXCEPT !.pc = "return", !.outcome = outcome]

\* the loop of the current sweep is over: on to the next loop, phase, or the end
NextSweep(f, reg) ==
    IF f.tier < LastTier(f.pc) THEN StartTier(f, reg, f.pc, f.tier + 1)
    ELSE IF f.pc = "error" THEN Finish(f, "caught")
    ELSE IF f.phase = "after" THEN Finish(f, "completed")
    ELSE EnterPhase(f, reg, NextPhase(f.phase))

\* run the engine on to the next callback it calls, or to its return
RECURSIVE Advance(_, _)
Advance(f, reg) ==
    IF f.pc \in {"sweep", "error"} /\ Remaining(f, reg) = <<>>
    THEN Advance(NextSweep(f, reg), reg)
    ELSE f

\* a dispatchSync without its catch clause
RaiseUncaught(f, reg, err) ==
    [f EXCEPT !.pc = "return", !.outcome = "threw", !.err = err, !.thrown = err]

\* a dispatchSync that swallows the exception and carries on
RaiseSkipped(f, reg, err) ==
    IF f.pc = "ing" THEN Advance(EnterPhase(f, reg, "end"), reg) ELSE Advance(f, reg)

\* catch (err) { phaseManager.error(err) }
Raise(f, reg, err) ==
    LET f1 == [f EXCEPT !.err = err,
                        !.atStart = [t \in 1..4 |-> ListOf(reg, SweepKey(f, "error", t))]]
    IN Advance(StartTier(f1, reg, "error", 1), reg)

Start(call, reg) == Advance(EnterPhase(NewFrame(call), reg, "before"), reg)

\* the target given to off() when a once listener has fired
OnceOffTarget(f) ==
    IF f.pc = "error" THEN f.target
    ELSE IF f.phase = "after" THEN f.target
    ELSE IF f.tier = 1 THEN f.target ELSE NullTarget

\* a before sweep that ignores what the callbacks return
VetoesNever(f, l) == FALSE

\* a before sweep that does not look at status.cancellable
VetoesAlways(f, l) == f.phase = "before" /\ l.ret = "false"

\* toCancel === false && eventInfo.status.cancellable
Vetoes(f, l) == f.phase = "before" /\ l.ret = "false" /\ f.cancellable

\* the on() or off() call a callback makes
CallbackAct(reg, l) ==
    IF l.act \notin {"on", "off"} THEN reg
    ELSE LET a == Card(l.actCard) IN
         IF l.act = "on"
         THEN IF l.actCard \in RegisteredIn(reg) THEN reg
              ELSE on(reg, a.target, a.event, a.phase, l.actCard)
         ELSE off(reg, a.target, a.event, a.phase, a.name)

\* what a callback reads from eventInfo.currentData
ViewCurrentData(f) == IF f.currentData THEN f.data ELSE Absent

\* get status() { return { ...status } }
ViewStatus(f) == [cancellable |-> f.cancellable]

\* get context() { return { ...context } }
ViewContext(f) == f.context

\* getters that hand out the records of the dispatch themselves
WriteToInternal(f) ==
    [f EXCEPT !.cancellable = FALSE, !.context = Number(9, 1),
              !.handed = [cancellable |-> FALSE, context |-> Number(9, 1)]]

\* const s = e.status; s.cancellable = false; const c = e.context; c.num = 9:
\* the writes go to the copies the getters made
WriteToView(f) ==
    [f EXCEPT !.handed = [[cancellable |-> ViewStatus(f).cancellable,
                           context |-> ViewContext(f)]
                          EXCEPT !.cancellable = FALSE, !.context = Number(9, 1)]]

Logged(f, c, invoked) ==
    [f EXCEPT !.idx = @ + 1,
              !.calls = Append(@, [cid |-> c, kind |-> f.pc, phase |-> f.phase,
                                   sweep |-> Len(f.sweeps), tier |-> f.tier,
                                   invoked |-> invoked, err |-> f.err,
                                   returned |-> Len(f.nested),
                                   currentData |-> ViewCurrentData(f),
                                   status |-> ViewStatus(f).cancellable,
                                   context |-> ViewContext(f)])]

\* the dispatchSync arguments of the record an after callback returned
ChainCall(l) ==
    Call(l.chain.event, l.chain.target, l.chain.cancellable,
         IF l.chain.ing = "undefined" THEN "default" ELSE l.chain.ing)

\* an after loop that never calls dispatchSync
ReturnsDispatchRecordNever(f, l) == FALSE

\* isPlainObject(result) && typeof result.event === "string"
ReturnsDispatchRecord(f, l) ==
    f.phase = "after" /\ l.ret = "chain" /\ l.chain.isString

WouldChain(f, reg) ==
    /\ f.pc = "sweep" /\ Remaining(f, reg) # <<>>
    /\ LET l == Card(Head(Remaining(f, reg))) IN
         /\ l.filter \notin {"skip", "throw"}
         /\ ReturnsDispatchRecord(f, l) /\ l.chain.ing # "notfn"

\* one iteration of a before, begin, end or after loop
StepListener(below, f, reg) ==
    LET c == Head(Remaining(f, reg))
        l == Card(c)
    IN IF l.filter = "skip"
       THEN [stack |-> Append(below, Advance(Logged(f, c, FALSE), reg)), reg |-> reg]
       ELSE IF l.filter = "throw"
       THEN [stack |-> Append(below, Raise(Logged(f, c, FALSE), reg, c)), reg |-> reg]
       ELSE LET reg1 == CallbackAct(reg, l)
                f0 == Logged(f, c, TRUE)
                f1 == IF l.act = "write" THEN WriteToView(f0) ELSE f0
            IN IF l.ret = "throw"
               THEN [stack |-> Append(below, Raise(f1, reg1, c)), reg |-> reg1]
               ELSE IF l.act = "assign"
               \* e.phase = "x" in strict code: the property has a getter only
               THEN [stack |-> Append(below, Raise(f1, reg1, "TypeError")), reg |-> reg1]
               ELSE LET reg2 == IF l.once
                                THEN off(reg1, OnceOffTarget(f), f.event, f.phase, l.name)
                                ELSE reg1
                    IN IF Vetoes(f, l)
                       THEN [stack |-> Append(below, Finish(f1, "vetoed")), reg |-> reg2]
                       ELSE IF ReturnsDispatchRecord(f, l)
                       THEN IF l.chain.ing = "notfn"
                            THEN [stack |-> Append(below, Raise(f1, reg2, "TypeError")),
                                  reg |-> reg2]
                            ELSE [stack |-> Append(Append(below, f1),
                                                   Start(ChainCall(l), reg2)),
                                  reg |-> reg2]
                       ELSE [stack |-> Append(below, Advance(f1, reg2)), reg |-> reg2]

\* one iteration of a loop of phaseManager.error
StepError(below, f, reg) ==
    LET c == Head(Remaining(f, reg))
        l == Card(c)
        k == SweepKey(f, "error", f.tier)
    IN IF l.filter = "skip"
       THEN [stack |-> Append(below, Advance(Logged(f, c, FALSE), reg)), reg |-> reg]
       ELSE IF l.filter = "throw"
       THEN [stack |-> Append(below, Finish([Logged(f, c, FALSE) EXCEPT !.thrown = c],
                                            "threw")),
             reg |-> reg]
       ELSE LET reg1 == CallbackAct(reg, l)
                f1 == Logged(f, c, TRUE)
            IN IF l.ret = "throw"
               THEN [stack |-> Append(below, Finish([f1 EXCEPT !.thrown = c], "threw")),
                     reg |-> reg1]
               ELSE LET reg2 == IF l.once
                                THEN off(reg1, OnceOffTarget(f), "error", k.phase, l.name)
                                ELSE reg1
                    IN [stack |-> Append(below, Advance(f1, reg2)), reg |-> reg2]

\* an ing function whose return value is dropped
IngReturnNothing(f) == Undefined

\* what the ing function returns: "fn" a value of its own, a mutator's the new value,
\* the default () => {} nothing
IngReturn(f) ==
    CASE f.ing = "fn" -> String(f.event)
      [] f.ing = "mutator" /\ f.type # "collection" ->
             IngAssigns(attr, f.type, ViewContext(f)).value
      [] OTHER -> Undefined

\* phaseManager.ing
StepIng(below, f, reg) ==
    LET f1 == [f EXCEPT !.calls = Append(@, [cid |-> "ing", kind |-> "ing",
                                             phase |-> f.phase, sweep |-> Len(f.sweeps),
                                             tier |-> 0, invoked |-> TRUE, err |-> f.err,
                                             returned |-> Len(f.nested),
                                             currentData |-> ViewCurrentData(f),
                                             status |-> ViewStatus(f).cancellable,
                                             context |-> ViewContext(f)])]
        a1 == IF f.ing = "mutator" THEN IngAssigns(attr, f.type, ViewContext(f)) ELSE attr
    IN IF f.ing = "throws" \/ (f.ing = "mutator" /\ IngThrows(attr, f.type, ViewContext(f)))
       THEN [stack |-> Append(below, Raise(f1, reg, "ing")), reg |-> reg, attr |-> a1]
       ELSE [stack |-> Append(below,
                              Advance(EnterPhase([f1 EXCEPT !.currentData = TRUE,
                                                            !.data = IngReturn(f)],
                                                 reg, "end"), reg)),
             reg |-> reg, attr |-> a1]

\* dispatchSync returns, or an exception leaves it
StepReturn(below, f, reg) ==
    IF below = <<>> THEN [stack |-> <<>>, reg |-> reg]
    ELSE LET caller == below[Len(below)]
             parent == [caller EXCEPT !.nested =
                           Append(@, [after |-> Len(caller.calls), event |-> f.event,
                                      target |-> f.target, outcome |-> f.outcome,
                                      phases |-> f.phases, nested |-> Len(f.nested)])]
             rest == SubSeq(below, 1, Len(below) - 1)
         IN IF f.outcome = "threw"
            THEN [stack |-> Append(rest, Raise(parent, reg, f.thrown)), reg |-> reg]
            ELSE [stack |-> Append(rest, Advance(parent, reg)), reg |-> reg]

----------------------------------------------------------------------------
(* History *)

Range(s) == {s[i] : i \in 1..Len(s)}

\* per listener list, its listeners in the order of their on() calls
UpdateOrder(order, reg) ==
    [t \in DOMAIN reg |->
        [k \in DOMAIN reg[t] |->
            LET old == IF t \in DOMAIN order
                       THEN IF k \in DOMAIN order[t] THEN order[t][k] ELSE <<>>
                       ELSE <<>>
                InList(c) == c \in Range(reg[t][k])
                new == Range(reg[t][k]) \ Range(old)
            IN SelectSeq(old, InList)
               \o (IF new = {} THEN <<>> ELSE <<CHOOSE c \in new : TRUE>>)]]

OnceCards == {c \in CardIds : Card(c).once}

\* invocations of the once listeners since they were registered, counted up to 2
UpdateFired(count, reg, reg2, invoked) ==
    LET new == RegisteredIn(reg2) \ RegisteredIn(reg) IN
    [c \in OnceCards |->
        IF c \in new THEN 0
        ELSE IF c \in invoked /\ count[c] < 2 THEN count[c] + 1
        ELSE count[c]]

\* the listener whose callback the next step of frame f calls
Invoked(f, reg) ==
    IF f.pc \in {"sweep", "error"} /\ Remaining(f, reg) # <<>>
    THEN {c \in {Head(Remaining(f, reg))} : Card(c).filter \notin {"skip", "throw"}}
    ELSE {}

----------------------------------------------------------------------------
(* The state machine *)

Top == stack[Len(stack)]
Below == SubSeq(stack, 1, Len(stack) - 1)

\* createEventEmitter()
Created ==
    /\ targetListenerMap = (defaultTarget :> EmptyMap)
    /\ stack = <<>>
    /\ regOrder = (defaultTarget :> EmptyMap)
    /\ fired = [c \in OnceCards |-> 0]
    /\ unregister = NoClosure
    /\ api = <<>>
    /\ currentEvent = <<>>

Init == scenario \in Scenarios /\ Created /\ attr = NoAttr

LiveInit == scenario \in LiveScenarios /\ Created /\ attr = NoAttr

RegInit == scenario \in RegScenarios /\ Created /\ attr = NoAttr

\* an emitter and one attribute with its action
AttrInit == scenario \in AttrScenarios /\ Created /\ attr = scenario.attr

\* client code of this run keeps the functions on() returns
Tracked == scenario \in RegScenarios

ApiCall(op, c) ==
    [op |-> op, card |-> c, before |-> targetListenerMap, stale |-> unregister.stale,
     threw |-> FALSE]


Client(u, a) == unregister' = u /\ api' = a

\* the view of the dispatch of frame f: the object currentEvent points to, given by
\* its event and target and the views above it on the parentEvent chain
EventInfo(f) == <<[event |-> f.event, target |-> f.target]>> \o f.parentEvent

\* currentEvent after a step that leaves the stack `new`: a dispatchSync call that
\* starts sets it to its view (239); one that ends by a veto, after the after phase or
\* after the error sweep sets it to currentEvent.parentEvent (350, 357, 360); one
\* that an exception of an error listener leaves does not
CurrentEventAfter(new) ==
    IF Len(new) > Len(stack) THEN EventInfo(new[Len(new)])
    ELSE IF new # <<>> /\ new[Len(new)].pc = "return" /\ new[Len(new)].outcome # "threw"
    THEN Tail(currentEvent)
    ELSE currentEvent

Becomes(r, invoked) ==
    /\ stack' = r.stack
    /\ targetListenerMap' = r.reg
    /\ regOrder' = UpdateOrder(regOrder, r.reg)
    /\ fired' = UpdateFired(fired, targetListenerMap, r.reg, invoked)
    /\ attr' = IF "attr" \in DOMAIN r THEN r.attr ELSE attr
    /\ currentEvent' = CurrentEventAfter(r.stack)
    /\ UNCHANGED scenario

\* values.reduce((p, c) => p + c, 0)
RECURSIVE sum(_)
sum(values) ==
    IF values = <<>> THEN Number(0, 1)
    ELSE Plus(sum(SubSeq(values, 1, Len(values) - 1)), values[Len(values)])

\* createSumAttribute(emitter, name, {attrs, min, max}): each of attrs is the number
\* attribute of this run (own) or an object whose get() returns v
createSumAttribute(attrs, min, max) == [attrs |-> attrs, min |-> min, max |-> max]

\* s.get() while the number attribute is a: the sum of the dependencies' get() is
\* taken anew and clamped; Absent when clamp throws
SumAttrGet(s, a) ==
    LET total == sum([i \in 1..Len(s.attrs) |->
                         IF s.attrs[i].own THEN a.value ELSE s.attrs[i].v])
    IN IF clampThrows(total, s.min, s.max) THEN Absent ELSE clamp(total, s.min, s.max)

\* sum attributes over the number attribute and one more dependency
SumAttributes ==
    {createSumAttribute(<<[own |-> TRUE, v |-> Undefined], [own |-> FALSE, v |-> d]>>,
                        b[1], b[2]) :
        d \in {Number(3, 1), Number(-7, 2)},
        b \in {<<Number(0, 1), Number(12, 1)>>, <<Number(0, 1), Number(0, 1)>>,
               <<Number(-5, 1), Number(5, 2)>>}}

\* top-level code calls on(target, event, phase, listener)
On ==
    /\ stack = <<>>
    /\ Cardinality(RegisteredIn(targetListenerMap)) < MaxListeners
    /\ \E c \in scenario.cards \ RegisteredIn(targetListenerMap) :
       IF onThrows(Card(c).event, Card(c).phase, Card(c))
       THEN /\ Becomes([stack |-> stack, reg |-> targetListenerMap], {})
            /\ Client(unregister, IF Tracked THEN <<[ApiCall("on", c) EXCEPT !.threw = TRUE]>> ELSE api)
       ELSE \E keep \in IF Tracked THEN BOOLEAN ELSE {FALSE} :
          /\ Becomes([stack |-> stack,
                      reg |-> on(targetListenerMap, Card(c).target, Card(c).event,
                                 Card(c).phase, c)], {})
          /\ Client(IF keep THEN Closure(c) ELSE Kept(unregister, targetListenerMap'),
                    IF Tracked THEN <<ApiCall("on", c)>> ELSE api)

\* top-level code calls off(target, event, phase, name)
Off ==
    /\ stack = <<>>
    /\ \E c \in scenario.cards :
       LET refused == offThrows(Card(c).event, Card(c).phase, Card(c))
           a == [ApiCall("off", c) EXCEPT !.threw = refused]
       IN /\ Becomes([stack |-> stack,
                      reg |-> IF refused THEN targetListenerMap
                              ELSE off(targetListenerMap, Card(c).target, Card(c).event,
                                       Card(c).phase, Card(c).name)], {})
          /\ Client(Kept(unregister, targetListenerMap'),
                    IF ~Tracked THEN api
                    ELSE IF api # <<>> /\ api[Len(api)].op = "on"
                    THEN <<api[Len(api)], a>>
                    ELSE <<a>>)

\* client code calls the function an on() call returned
CallUnregister ==
    /\ stack = <<>>
    /\ unregister.card # "none"
    /\ Becomes([stack |-> stack, reg |-> Unregister(targetListenerMap, unregister)], {})
    /\ Client(Kept(unregister, targetListenerMap'), <<ApiCall("unregister", unregister.card)>>)

\* top-level code calls dispatchSync(event, ing, options)
DispatchSync ==
    /\ stack = <<>>
    /\ Len(currentEvent) < MaxLeaked
    /\ \E call \in scenario.calls :
       IF dispatchSyncThrows(call)
       THEN /\ Becomes([stack |-> stack, reg |-> targetListenerMap], {})
            /\ Client(unregister,
                      IF ~Tracked THEN api
                      ELSE <<[op |-> "dispatchSync", call |-> call, threw |-> TRUE,
                              before |-> targetListenerMap, stale |-> unregister.stale]>>)
       ELSE /\ Becomes([stack |-> <<Start(call, targetListenerMap)>>,
                        reg |-> targetListenerMap], {})
            /\ Client(unregister, <<>>)

\* top-level code calls a mutator of the attribute
Mutate ==
    /\ stack = <<>>
    /\ attr.calls < MaxMutations
    /\ Len(currentEvent) < MaxLeaked
    /\ \E m \in scenario.mutators :
          LET throws == MutatorThrows(attr, m)
              called == [attr EXCEPT
                            !.calls = @ + 1, !.prev = attr.last,
                            !.issued = IF m.op = "issue" THEN <<>> ELSE @,
                            !.last = [NoMutation EXCEPT
                                         !.op = m.op, !.arg = m.arg, !.pre = attr.value,
                                         !.post = attr.value,
                                         !.outcome = IF throws THEN "threw"
                                                     ELSE IF Dispatches(m) THEN "called"
                                                     ELSE "returned"]]
          IN /\ (attr.kind = "number" /\ m.op = "pow" /\ ~throws)
                   => HasPower(attr.value, m.arg)
             /\ Becomes([stack |-> IF throws \/ ~Dispatches(m) THEN <<>>
                                   ELSE <<Start(MutatorCall(attr, m), targetListenerMap)>>,
                         reg |-> targetListenerMap, attr |-> called], {})
             /\ Client(unregister, api)

\* the value a getter bound returns changes
SetLimit ==
    /\ stack = <<>>
    /\ \E v \in scenario.limits \ {attr.limit} :
          Becomes([stack |-> stack, reg |-> targetListenerMap,
                   attr |-> [attr EXCEPT !.limit = v]], {})
    /\ Client(unregister, api)

\* the innermost dispatch calls the next listener of a before, begin, end or after loop
CallListener ==
    /\ stack # <<>>
    /\ Top.pc = "sweep"
    /\ WouldChain(Top, targetListenerMap) => Len(stack) < MaxDepth
    /\ Becomes(StepListener(Below, Top, targetListenerMap),
               Invoked(Top, targetListenerMap))
    /\ Client(Kept(unregister, targetListenerMap'), api)

\* the innermost dispatch calls its ing function
CallIng ==
    /\ stack # <<>>
    /\ Top.pc = "ing"
    /\ Becomes(StepIng(Below, Top, targetListenerMap), {})
    /\ Client(unregister, api)

\* the innermost dispatch calls the next error listener
CallErrorListener ==
    /\ stack # <<>>
    /\ Top.pc = "error"
    /\ Becomes(StepError(Below, Top, targetListenerMap),
               Invoked(Top, targetListenerMap))
    /\ Client(Kept(unregister, targetListenerMap'), api)

\* the innermost dispatchSync call ends
Return ==
    /\ stack # <<>>
    /\ Top.pc = "return"
    /\ Becomes(StepReturn(Below, Top, targetListenerMap), {})
    /\ Client(unregister, api)

Next ==
    \/ On
    \/ Off
    \/ DispatchSync
    \/ CallListener
    \/ CallIng
    \/ CallErrorListener
    \/ Return

Spec == Init /\ [][Next]_vars

\* a step of the dispatchSync call in progress
Run == CallListener \/ CallIng \/ CallErrorListener \/ Return

\* ENABLED <<Run>>_vars: a dispatchSync call is in progress (each step of it changes
\* the stack); a call at depth MaxDepth that is about to nest is left as it is
Running ==
    /\ stack # <<>>
    /\ WouldChain(Top, targetListenerMap) => Len(stack) < MaxDepth

\* JavaScript runs a call to completion: the thread goes on with the next listener,
\* with ing or with the return as long as a call is in progress.  This is
\* WF_vars(Run), with ENABLED <<Run>>_vars written as the state predicate Running.
LiveSpec == LiveInit /\ [][Next]_vars /\ ([]<>(~Running) \/ []<><<Run>>_vars)

\* Client code that calls on, off, the functions on returned, and dispatchSync.
RegNext ==
    \/ On
    \/ Off
    \/ CallUnregister
    \/ DispatchSync
    \/ CallListener
    \/ CallIng
    \/ Return

RegSpec == RegInit /\ [][RegNext]_vars

\* Client code that registers listeners on an attribute and calls its mutators.
AttrNext ==
    \/ On
    \/ Off
    \/ Mutate
    \/ SetLimit
    \/ CallListener
    \/ CallIng
    \/ CallErrorListener
    \/ Return

AttrSpec == AttrInit /\ [][AttrNext]_vars

----------------------------------------------------------------------------
(* Reading the history of a dispatch *)

Frames == Range(stack)

IsPrefix(s, t) == Len(s) <= Len(t) /\ SubSeq(t, 1, Len(s)) = s

PhaseIndex(p) == CHOOSE i \in 1..Len(PhaseOrder) : PhaseOrder[i] = p

\* the listeners sweep k of frame f has visited, in order
Visited(f, k) ==
    LET InSweep(c) == c.sweep = k /\ c.kind # "ing"
        cs == SelectSeq(f.calls, InSweep)
    IN [i \in 1..Len(cs) |-> cs[i].cid]

\* the callbacks frame f has called, in order (a listener its filter skipped is not called)
CallbacksOf(f) ==
    LET WasCalled(c) == c.invoked IN SelectSeq(f.calls, WasCalled)

\* sweep k of frame f ran to the end of its list
SweepDone(f, k) ==
    IF k < Len(f.sweeps) THEN f.sweeps[k + 1].kind = f.sweeps[k].kind
    ELSE f.pc = "ing" \/ f.outcome \in {"completed", "caught"}

\* a before callback of frame f returned false
ReturnedFalse(f) ==
    \E i \in 1..Len(f.calls) :
        /\ f.calls[i].kind = "sweep" /\ f.calls[i].phase = "before" /\ f.calls[i].invoked
        /\ Card(f.calls[i].cid).ret = "false"

----------------------------------------------------------------------------
(* C1 *)

\* C1: a dispatch enters its phases in the order before, begin, ing, end, after,
\* none skipped and none twice; the phase its callbacks see never goes back; a
\* dispatch that completes (no veto, no exception) has entered all five.
PhasesInOrder ==
    \A f \in Frames :
        /\ IsPrefix(f.phases, PhaseOrder)
        /\ \A i, j \in 1..Len(f.calls) :
              i < j => PhaseIndex(f.calls[i].phase) <= PhaseIndex(f.calls[j].phase)
        /\ f.outcome = "completed" => f.phases = PhaseOrder

\* a dispatch completed after a nested dispatch ran inside its after phase
WitnessPhasesInOrder ==
    \E f \in Frames :
        /\ f.outcome = "completed" /\ Len(stack) = 1
        /\ \E i \in 1..Len(f.calls) : f.calls[i].cid = "c1" /\ f.calls[i].invoked
        /\ \E i \in 1..Len(f.calls) : f.calls[i].cid = "c2" /\ f.calls[i].invoked

----------------------------------------------------------------------------
(* C2 *)

\* C2: once a before callback has returned false in a cancellable dispatch, that was
\* the last callback of the dispatch: no begin, ing, end or after callback runs, the
\* view never gets currentData, and dispatchSync returns without throwing.
VetoStopsDispatch ==
    \A f \in Frames :
        f.cancellable /\ ReturnedFalse(f) =>
            /\ f.phases = <<"before">>
            /\ Card(f.calls[Len(f.calls)].cid).ret = "false"
            /\ \A i \in 1..(Len(f.calls) - 1) :
                  ~(f.calls[i].invoked /\ Card(f.calls[i].cid).ret = "false")
            /\ \A i \in 1..Len(f.calls) : f.calls[i].phase = "before"
            /\ ~f.currentData
            /\ f.pc = "return" /\ f.outcome = "vetoed" /\ f.thrown = "none"

\* a global before listener vetoed a dispatch after a target listener had run
WitnessVetoStopsDispatch ==
    \E f \in Frames :
        /\ f.outcome = "vetoed" /\ f.target = "A"
        /\ Len(f.calls) = 2
        /\ f.calls[1].cid = "w1" /\ f.calls[2].cid = "v2"
        /\ "bg" \in RegisteredIn(targetListenerMap)

----------------------------------------------------------------------------
(* C3 *)

\* C3: in a dispatch with status.cancellable = false a before callback that returns
\* false stops nothing: the dispatch is never vetoed, and when it ends without an
\* exception it has run every before listener, begin, ing, end and after.
NoVetoWhenNotCancellable ==
    \A f \in Frames :
        ~f.cancellable /\ ReturnedFalse(f) =>
            /\ f.outcome # "vetoed"
            /\ f.pc = "return" /\ f.err = "none" =>
                  /\ f.outcome = "completed"
                  /\ f.phases = PhaseOrder
                  /\ f.currentData
                  /\ \A k \in 1..Len(f.sweeps) : Visited(f, k) = f.sweeps[k].start

\* a dispatch that is not cancellable completed although v1 returned false, and w1
\* (before, after v1), bg (begin), en (end) and af (after) were called
WitnessNoVetoWhenNotCancellable ==
    \E f \in Frames :
        /\ ~f.cancellable /\ f.outcome = "completed"
        /\ LET cs == CallbacksOf(f) IN
             /\ Len(cs) = 6
             /\ cs[1].cid = "v1" /\ cs[2].cid = "w1" /\ cs[3].cid = "bg"
             /\ cs[4].cid = "ing" /\ cs[5].cid = "en" /\ cs[6].cid = "af"

----------------------------------------------------------------------------
(* C4 *)

\* C4: a once listener is called at most once after it was registered, and when the
\* step that called it is over it is no longer in the registry.
OnceFiresOnce ==
    \A c \in OnceCards :
        /\ fired[c] <= 1
        /\ fired[c] = 1 => c \notin RegisteredIn(targetListenerMap)

----------------------------------------------------------------------------
(* C5 *)

\* the listeners of one scope that frame f called in phase p, in order
CalledInPhase(f, p) ==
    LET InPhase(c) == c.kind = "sweep" /\ c.phase = p /\ c.invoked IN
    SelectSeq(f.calls, InPhase)

\* C5: in each phase of a dispatch with a target T, no listener registered in global
\* scope is called before a listener registered on T, and among the listeners of one
\* scope none is called before a listener of higher priority.
TargetFirstThenPriority ==
    \A f \in Frames :
        f.target # NullTarget =>
            \A p \in {"before", "begin", "end", "after"} :
                LET cs == CalledInPhase(f, p) IN
                \A i, j \in 1..Len(cs) :
                    i < j =>
                        LET a == Card(cs[i].cid)
                            b == Card(cs[j].cid)
                        IN /\ ~(a.target = NullTarget /\ b.target = f.target)
                           /\ a.target = b.target =>
                                 PriorityOf(cs[i].cid) >= PriorityOf(cs[j].cid)

\* listeners registered on A with priorities 5, 1, 3 in that order were called in the
\* order 5, 3, 1, and after them a global listener
WitnessTargetFirstThenPriority ==
    \E f \in Frames :
        /\ f.target = "A"
        /\ getListeners(regOrder, "A", "e", "before") = <<"p5", "p1", "p3">>
        /\ LET cs == CalledInPhase(f, "before") IN
             /\ Len(cs) = 4
             /\ cs[1].cid = "p5" /\ cs[2].cid = "p3" /\ cs[3].cid = "p1"
             /\ cs[4].cid = "g0"

----------------------------------------------------------------------------
(* C6 *)

PositionIn(s, c) == CHOOSE i \in 1..Len(s) : s[i] = c

\* C6: in every listener list, of two listeners of equal priority the one registered
\* first comes first (a sweep calls the listeners of a list in list order).
EqualPriorityInRegistrationOrder ==
    \A t \in DOMAIN targetListenerMap :
        \A k \in DOMAIN targetListenerMap[t] :
            LET list == targetListenerMap[t][k] IN
            \A i, j \in 1..Len(list) :
                i < j /\ PriorityOf(list[i]) = PriorityOf(list[j]) =>
                    PositionIn(regOrder[t][k], list[i]) < PositionIn(regOrder[t][k], list[j])

----------------------------------------------------------------------------
(* C7 *)

\* C7: every listener a dispatch calls was registered on the target of the dispatch
\* or in global scope, and a sweep of a global list that runs to its end has visited
\* every listener of that list, whatever the target of the dispatch.
TargetScoping ==
    \A f \in Frames :
        /\ \A i \in 1..Len(f.calls) :
              f.calls[i].kind # "ing" =>
                  Card(f.calls[i].cid).target \in {f.target, NullTarget}
        /\ \A k \in 1..Len(f.sweeps) :
              f.sweeps[k].key.target = NullTarget /\ SweepDone(f, k) =>
                  Visited(f, k) = f.sweeps[k].start

\* a dispatch with target B called the global listener g0 and its own listener b1
\* while listeners were registered on A
WitnessTargetScoping ==
    \E f \in Frames :
        /\ f.target = "B" /\ f.pc = "ing"
        /\ "p5" \in RegisteredIn(targetListenerMap)
        /\ LET cs == CalledInPhase(f, "before") IN
             Len(cs) = 2 /\ cs[1].cid = "b1" /\ cs[2].cid = "g0"

----------------------------------------------------------------------------
(* C8 *)

\* C8 as claimed, for the dispatches with a target: what a phase visits, in both
\* scopes, is what the two lists held when the phase started.
SnapshotAtPhaseStart ==
    \A f \in Frames :
        \A k \in 1..Len(f.sweeps) :
            f.sweeps[k].kind = "sweep" /\ f.target # NullTarget =>
                /\ IsPrefix(Visited(f, k), f.sweeps[k].atPhaseStart)
                /\ SweepDone(f, k) => Visited(f, k) = f.sweeps[k].atPhaseStart

\* C8, amended: each of the two loops of a phase visits what its list held when that
\* loop started, whatever on() and off() calls its callbacks make; the loop over the
\* target's list starts with the phase, the loop over the global list when the first
\* loop is over.
SnapshotAtSweepStart ==
    \A f \in Frames :
        \A k \in 1..Len(f.sweeps) :
            f.sweeps[k].kind = "sweep" =>
                /\ IsPrefix(Visited(f, k), f.sweeps[k].start)
                /\ SweepDone(f, k) => Visited(f, k) = f.sweeps[k].start
                /\ f.sweeps[k].tier = 1 => f.sweeps[k].start = f.sweeps[k].atPhaseStart

\* s2 unregistered s3 during the begin sweep and s3 was called all the same, and s4
\* registered x2 during the global begin sweep and x2 was not called
WitnessSnapshotAtSweepStart ==
    \E f \in Frames :
        /\ f.pc = "ing"
        /\ LET cs == CalledInPhase(f, "begin") IN
             /\ Len(cs) = 3
             /\ cs[1].cid = "s2" /\ cs[2].cid = "s3" /\ cs[3].cid = "s4"
        /\ "s3" \notin RegisteredIn(targetListenerMap)
        /\ "x2" \in RegisteredIn(targetListenerMap)

----------------------------------------------------------------------------
(* C9 *)

ErrorCalls(f) ==
    LET IsError(c) == c.kind = "error" IN SelectSeq(f.calls, IsError)

NormalCalls(f) ==
    LET IsNormal(c) == c.kind # "error" IN SelectSeq(f.calls, IsNormal)

ThrowsWhenCalled(c) == Card(c).ret = "throw" \/ Card(c).filter = "throw"

\* err is the exception the last call of frame f outside its error sweep ended with
ThrownByLastCall(f, err) ==
    LET cs == NormalCalls(f)
        last == cs[Len(cs)]
    IN /\ Len(cs) > 0
       /\ IF last.kind = "ing" THEN f.ing = "throws" /\ err = "ing"
          ELSE IF ThrowsWhenCalled(last.cid) THEN err = last.cid
          ELSE IF Card(last.cid).act = "assign" THEN err = "TypeError"
          ELSE /\ last.phase = "after" /\ Card(last.cid).ret = "chain"
               /\ IF Card(last.cid).chain.ing = "notfn" THEN err = "TypeError"
                  ELSE err \in CardIds /\ Card(err).event = "error"
                       /\ ThrowsWhenCalled(err)

\* the error sweep of frame f: each of its four loops, run to the end
ErrorSweepComplete(f) ==
    LET IsError(w) == w.kind = "error"
        ws == SelectSeq(f.sweeps, IsError)
    IN /\ Len(ws) = 4
       /\ \A k \in 1..Len(f.sweeps) :
             f.sweeps[k].kind = "error" => Visited(f, k) = f.sweeps[k].start

\* C9 as claimed: a failure is caught, the error listeners get it, and dispatchSync
\* never throws.
DispatchNeverThrows ==
    \A f \in Frames :
        /\ f.outcome # "threw"
        /\ f.err # "none" => f.pc \in {"error", "return"}
        /\ \A i \in 1..Len(f.calls) :
              f.calls[i].kind = "error" => f.calls[i].err = f.err

\* C9, amended: an exception of the ing function, of a listener's filter or callback,
\* or of a nested dispatchSync call is caught; every error listener called gets that
\* exception; the dispatch ends after the four error loops and dispatchSync returns,
\* unless an error listener itself throws: that exception leaves dispatchSync.
ErrorIsolation ==
    \A f \in Frames :
        /\ f.err = "none" =>
              /\ f.outcome \in {"running", "completed", "vetoed"}
              /\ ErrorCalls(f) = <<>>
        /\ f.err # "none" =>
              /\ f.pc \in {"error", "return"}
              /\ ThrownByLastCall(f, f.err)
              /\ \A i \in 1..Len(f.calls) :
                    f.calls[i].kind = "error" => f.calls[i].err = f.err
              /\ f.pc = "return" => f.outcome \in {"caught", "threw"}
              /\ f.outcome = "caught" => ErrorSweepComplete(f) /\ f.thrown = "none"
        /\ f.outcome = "threw" =>
              LET es == ErrorCalls(f) IN
              /\ Len(es) > 0
              /\ f.calls[Len(f.calls)] = es[Len(es)]
              /\ ThrowsWhenCalled(es[Len(es)].cid)
              /\ f.thrown = es[Len(es)].cid

\* the ing function threw; the error listeners eI, eA and gA were called with the
\* exception and the dispatch ended without throwing
WitnessErrorIsolation ==
    \E f \in Frames :
        /\ f.outcome = "caught" /\ f.err = "ing" /\ f.phase = "ing"
        /\ LET es == ErrorCalls(f) IN
             /\ Len(es) = 3
             /\ es[1].cid = "eI" /\ es[2].cid = "eA" /\ es[3].cid = "gA"
             /\ \A i \in 1..3 : es[i].invoked /\ es[i].err = "ing"

----------------------------------------------------------------------------
(* C10 *)

\* the place of a listener in the error sweep of a dispatch with target t that
\* failed in phase p
ErrorRank(c, t, p) ==
    (IF Card(c).target = t THEN 0 ELSE 2) + (IF Card(c).phase = p THEN 1 ELSE 2)

\* C10: the error sweep of a dispatch with target T calls listeners of the event
\* "error" only, registered on T or in global scope under the phase P the dispatch
\* failed in or under "all", in the order (T, P), (T, all), (global, P),
\* (global, all); when it runs to its end it has called all of them.
ErrorSweepOrder ==
    \A f \in Frames :
        f.target # NullTarget /\ f.err # "none" =>
            LET es == ErrorCalls(f)
                ns == NormalCalls(f)
                P == ns[Len(ns)].phase
            IN /\ f.phase = P
               /\ \A i \in 1..Len(es) :
                     /\ Card(es[i].cid).event = "error"
                     /\ Card(es[i].cid).phase \in {P, "all"}
                     /\ Card(es[i].cid).target \in {f.target, NullTarget}
               /\ \A i, j \in 1..Len(es) :
                     i < j => ErrorRank(es[i].cid, f.target, P)
                                 <= ErrorRank(es[j].cid, f.target, P)
               /\ f.outcome = "caught" =>
                     \A c \in RegisteredIn(targetListenerMap) :
                        /\ Card(c).event = "error"
                        /\ Card(c).phase \in {P, "all"}
                        /\ Card(c).target \in {f.target, NullTarget}
                        => \E i \in 1..Len(es) : es[i].cid = c

\* t1 threw in begin; eP, eA, gP and gA were called in that order and eO, registered
\* for ("error", "end"), was not
WitnessErrorSweepOrder ==
    \E f \in Frames :
        /\ f.target = "A" /\ f.outcome = "caught" /\ f.err = "t1"
        /\ "eO" \in RegisteredIn(targetListenerMap)
        /\ LET es == ErrorCalls(f) IN
             /\ Len(es) = 4
             /\ es[1].cid = "eP" /\ es[2].cid = "eA" /\ es[3].cid = "gP"
             /\ es[4].cid = "gA"

----------------------------------------------------------------------------
(* C11 *)

\* the calls of frame f whose callback returned a record with a string event
RecordCalls(f) ==
    {i \in 1..Len(f.calls) :
        /\ f.calls[i].kind = "sweep" /\ f.calls[i].invoked
        /\ f.calls[i].phase = "after"
        /\ Card(f.calls[i].cid).ret = "chain" /\ Card(f.calls[i].cid).chain.isString}

----------------------------------------------------------------------------
(* C12 *)

IngCalls(f) == {i \in 1..Len(f.calls) : f.calls[i].kind = "ing"}

\* C12: a dispatch calls its ing function at most once and, once it is in phase end or
\* after, exactly once; when ing is called every begin loop has run to its end and no
\* end listener has been called; the callbacks of before, begin and ing find no
\* currentData on the view, and every end and after callback reads the value ing
\* returned.
IngOnceThenCurrentData ==
    \A f \in Frames :
        /\ Cardinality(IngCalls(f)) <= 1
        /\ f.phase \in {"end", "after"} => Cardinality(IngCalls(f)) = 1
        /\ \A i \in IngCalls(f) :
              /\ \A j \in 1..(i - 1) : f.calls[j].phase \in {"before", "begin"}
              /\ \A j \in (i + 1)..Len(f.calls) :
                    f.calls[j].kind = "sweep" => f.calls[j].phase \in {"end", "after"}
              /\ \A k \in 1..Len(f.sweeps) :
                    f.sweeps[k].phase = "begin" => Visited(f, k) = f.sweeps[k].start
        /\ \A j \in 1..Len(f.calls) :
              /\ f.calls[j].kind # "error" /\ f.calls[j].phase \in {"before", "begin", "ing"}
                    => f.calls[j].currentData = Absent
              /\ f.calls[j].kind = "sweep" /\ f.calls[j].phase \in {"end", "after"}
                    => /\ f.calls[j].currentData = f.data
                       /\ f.data = IF f.ing = "fn" THEN String(f.event) ELSE Undefined

\* a dispatch of "e" completed: bg (begin) found no currentData, then ing was called,
\* then en (end) and af (after) read what ing had returned
WitnessIngOnceThenCurrentData ==
    \E f \in Frames :
        /\ f.outcome = "completed" /\ f.cancellable
        /\ Len(f.calls) = 4
        /\ f.calls[1].cid = "bg" /\ f.calls[1].currentData = Absent
        /\ f.calls[2].cid = "ing"
        /\ f.calls[3].cid = "en" /\ f.calls[3].currentData = String("e")
        /\ f.calls[4].cid = "af" /\ f.calls[4].currentData = String("e")

----------------------------------------------------------------------------
(* C13 *)

LastApi == api[Len(api)]

\* the list of listener c in registry reg
ListOfCard(reg, c) == getListeners(reg, Card(c).target, Card(c).event, Card(c).phase)

\* off(...) of the second call has the coordinates and the name of on(...) of the
\* first, and both calls returned
OnThenOff ==
    /\ Len(api) = 2
    /\ ~api[1].threw /\ ~api[2].threw
    /\ Card(api[1].card).target = Card(api[2].card).target
    /\ Card(api[1].card).event = Card(api[2].card).event
    /\ Card(api[1].card).phase = Card(api[2].card).phase
    /\ Card(api[1].card).name = Card(api[2].card).name

\* every listener list of registry reg holds one listener of each name at most
UniqueNames(reg) ==
    \A x \in UNION {{<<t, k>> : k \in DOMAIN reg[t]} : t \in DOMAIN reg} :
        \A i, j \in 1..Len(reg[x[1]][x[2]]) :
            i # j => Card(reg[x[1]][x[2]][i]).name # Card(reg[x[1]][x[2]][j]).name

\* C13 as claimed, for listeners named as the Listener type asks (a name of its own
\* in the list): on(target, event, phase, L) and then off(target, event, phase,
\* L.name) leave the registry as it was before on.
OnThenOffRestores ==
    OnThenOff /\ UniqueNames(api[2].before) => targetListenerMap = api[1].before

\* C13, amended: they do when L is the first listener of its name in its list after
\* on (off removes the first of that name); no list and no entry of a target is left
\* behind, and the empty entry the emitter starts with for the default target is not
\* put back once off has emptied the global scope.
OnThenOffRestoresFirstOfName ==
    OnThenOff =>
        LET c == api[1].card
            before == api[1].before
            list == ListOfCard(api[2].before, c)
            startsEmpty == /\ TargetKey(Card(c).target) = defaultTarget
                           /\ defaultTarget \in DOMAIN before
                           /\ DOMAIN before[defaultTarget] = {}
        IN FindIndex(list, Card(c).name) = PositionIn(list, c) =>
              targetListenerMap = IF startsEmpty THEN MapDelete(before, defaultTarget)
                                  ELSE before

\* r1 was registered ahead of r2, a listener of the same name in the same list;
\* off with that name removed r1 again and the registry is as before
WitnessOnThenOffRestoresFirstOfName ==
    /\ OnThenOff
    /\ api[1].card = "r1"
    /\ ListOfCard(api[1].before, "r1") = <<"r2">>
    /\ ListOfCard(api[2].before, "r1") = <<"r1", "r2">>
    /\ "r3" \in RegisteredIn(targetListenerMap)
    /\ targetListenerMap = api[1].before

----------------------------------------------------------------------------
(* C14 *)

\* the list registry reg holds under key k of target t, if any
Entry(reg, t, k) ==
    IF t \in DOMAIN reg THEN (IF k \in DOMAIN reg[t] THEN <<reg[t][k]>> ELSE <<>>)
    ELSE <<>>

Keys(reg) == UNION {{<<t, k>> : k \in DOMAIN reg[t]} : t \in DOMAIN reg}

\* C14: off(target, event, phase, name) removes the first listener of that name from
\* the list of (target, event, phase) and nothing else; a list left empty is deleted
\* from the target's map and a map left empty from the registry; when the list has
\* no listener of that name the registry stays as it is; every other list is
\* unchanged.
OffRemovesOne ==
    api # <<>> /\ LastApi.op = "off" =>
        LET l == Card(LastApi.card)
            before == LastApi.before
            t == TargetKey(l.target)
            k == EventName(l.event, l.phase)
            list == getListeners(before, l.target, l.event, l.phase)
            named == {i \in 1..Len(list) : Card(list[i]).name = l.name}
        IN IF named = {} THEN targetListenerMap = before
           ELSE LET first == CHOOSE i \in named : \A j \in named : i <= j
                    rest == [i \in 1..(Len(list) - 1) |->
                                IF i < first THEN list[i] ELSE list[i + 1]]
                IN /\ Entry(targetListenerMap, t, k)
                        = IF rest = <<>> THEN <<>> ELSE <<rest>>
                   /\ \A x \in Keys(before) \cup Keys(targetListenerMap) :
                         x # <<t, k>> =>
                            Entry(targetListenerMap, x[1], x[2]) = Entry(before, x[1], x[2])
                   /\ DOMAIN targetListenerMap
                        = {u \in DOMAIN before :
                              u = t => rest # <<>> \/ DOMAIN before[t] # {k}}
                   /\ Cardinality(RegisteredIn(targetListenerMap))
                        = Cardinality(RegisteredIn(before)) - 1

\* off(A, "e", "before", "dup") took r1, the first of the two listeners of that name,
\* out of the list and left r2 and the lists of r3 and r4 alone
WitnessOffRemovesOne ==
    /\ api # <<>> /\ LastApi.op = "off"
    /\ ListOfCard(LastApi.before, "r1") = <<"r1", "r2">>
    /\ ListOfCard(targetListenerMap, "r1") = <<"r2">>
    /\ {"r3", "r4"} \subseteq RegisteredIn(targetListenerMap)

----------------------------------------------------------------------------
(* C15 *)

\* C15 as claimed, for a listener L that is registered and has a name of its own in
\* its list: calling the function on() returned for L leaves the registry as off()
\* with the coordinates and the name of that on() call would.
UnregisterIsOff ==
    /\ api # <<>> /\ LastApi.op = "unregister"
    /\ UniqueNames(LastApi.before) /\ LastApi.card \in RegisteredIn(LastApi.before)
    =>  LET l == Card(LastApi.card) IN
        targetListenerMap = off(LastApi.before, l.target, l.event, l.phase, l.name)

----------------------------------------------------------------------------
(* C16 *)

\* the calls of frame f in which the callback wrote to the status and context
\* records it had read from the view
WriteCalls(f) ==
    {i \in 1..Len(f.calls) : f.calls[i].invoked /\ f.calls[i].kind = "sweep"
                                /\ Card(f.calls[i].cid).act = "write"}

\* C16: whatever a callback writes to the status and context records it read from the
\* view, the dispatch keeps the status and the context it was called with: every
\* callback and the ing function read those, and a before callback that returns false
\* vetoes the dispatch exactly when it was called cancellable.  target, name, type
\* and preData stay those of the call, and an assignment to the phase accessor
\* changes nothing: it fails and the dispatch handles the TypeError in that phase.
ViewProtectsDispatch ==
    \A f \in Frames :
        /\ f.cancellable = f.options.cancellable /\ f.context = f.options.context
        /\ f.event = f.options.event /\ f.target = f.options.target
        /\ f.type = f.options.type /\ f.preData = f.options.preData
        /\ \A i \in 1..Len(f.calls) :
              /\ f.calls[i].status = f.options.cancellable
              /\ f.calls[i].context = f.options.context
              /\ f.calls[i].invoked /\ f.calls[i].kind = "sweep"
                    /\ Card(f.calls[i].cid).act = "assign"
                    => f.phase = f.calls[i].phase /\ f.err = "TypeError"
        /\ ReturnedFalse(f) => (f.outcome = "vetoed" <=> f.options.cancellable)
        /\ WriteCalls(f) # {} => f.handed = [cancellable |-> FALSE, context |-> Number(9, 1)]

\* wr set cancellable to false and num to 9 in the records the view gave it; v1,
\* called next, read cancellable true and num 1, returned false, and the dispatch
\* was vetoed
WitnessViewProtectsDispatch ==
    \E f \in Frames :
        /\ f.outcome = "vetoed" /\ Len(f.calls) = 2
        /\ f.calls[1].cid = "wr" /\ WriteCalls(f) = {1}
        /\ f.handed.cancellable = FALSE
        /\ f.calls[2].cid = "v1"
        /\ f.calls[2].status = TRUE /\ f.calls[2].context = Number(1, 1)

----------------------------------------------------------------------------
(* Attributes: reading the history of the mutator calls *)

\* min <= v <= max
Within(v, min, max) == ~IsNaN(v) /\ ~Less(v, min) /\ ~Less(max, v)

\* C17: after every call of add, subtract, multiply, divide, pow or set on a number
\* attribute, its value lies between the min and the max of that call, whatever the
\* integer strategy.
NumberWithinBounds ==
    (attr.kind = "number" /\ attr.last.outcome \in {"changed", "failed"})
        => Within(attr.value, attr.last.min, attr.last.max)

\* the dispatch of the mutator call in progress, once its ing function has returned
Mutation == stack[1]
Mutated == stack # <<>> /\ stack[1].ing = "mutator" /\ stack[1].currentData

\* C18: once the ing function of a number mutator op(num) has returned, the value is
\* integerStrategy(clamp(op(old, num), min, max)) with min and max as the bounds
\* (constants or getters) are at that call; it is the currentData of a "changeValue"
\* dispatch whose target is the attribute, whose type is the name of the operation
\* and whose preData is the old value.
MutatorClampsThenRounds ==
    (attr.kind = "number" /\ Mutated) =>
        LET f == Mutation
            expected ==
                getIntegerStrategy(attr.integerStrategy,
                                   clamp(NumberOp(attr.last.op, attr.last.pre, attr.last.arg),
                                         BoundNow(attr.min, attr.limit),
                                         BoundNow(attr.max, attr.limit)))
        IN /\ attr.value = expected
           /\ f.data = expected
           /\ f.event = "changeValue" /\ f.target = AttrTarget
           /\ f.type = attr.last.op /\ f.preData = attr.last.pre

\* value 0, min 0, max 10, floor: add(7.8) gave 7 and add(5) gives 10
WitnessMutatorClampsThenRounds ==
    /\ attr.kind = "number" /\ Mutated
    /\ attr.integerStrategy = "floor"
    /\ attr.prev.op = "add" /\ attr.prev.arg = Number(39, 5)
    /\ attr.prev.pre = Number(0, 1) /\ attr.prev.post = Number(7, 1)
    /\ attr.prev.outcome = "changed"
    /\ Mutation.type = "add" /\ Mutation.context = Number(5, 1)
    /\ Mutation.preData = Number(7, 1) /\ Mutation.data = Number(10, 1)
    /\ attr.value = Number(10, 1)

\* C19: once a before listener has returned false in the dispatch of a mutator
\* (number, string, status or collection), the value of the attribute is the one it
\* had before the call, and it still is when the call has returned.
VetoedMutationChangesNothing ==
    /\ \A f \in Frames :
          (f.ing = "mutator" /\ ReturnedFalse(f)) =>
              /\ attr.value = f.preData
              /\ attr.value = attr.last.pre
              /\ attr.last.outcome = "called"
    /\ (stack = <<>> /\ attr.last.outcome = "called") => attr.value = attr.last.pre

\* a before listener on "changeValue" vetoed set("x") on a string attribute
WitnessVetoedMutationChangesNothing ==
    /\ attr.kind = "string" /\ attr.value = String("a")
    /\ attr.last.op = "set" /\ attr.last.arg = String("x")
    /\ Len(stack) = 1 /\ Top.event = "changeValue" /\ Top.outcome = "vetoed"
    /\ ReturnedFalse(Top)

\* C20: on a status attribute with list s of length n and status s[i], changeStatus(x)
\* throws exactly when x is not in s and then leaves the status alone, and otherwise
\* sets it to x; changeToNextStatus sets it to s[(i+1) mod n] and changeToLastStatus
\* to s[(i-1) mod n], whatever the values in s are.
StatusCycles ==
    (attr.kind = "status" /\ attr.last.outcome \in {"changed", "threw"}) =>
        LET s == attr.statusList
            n == Len(s)
            i == IndexOf(s, attr.last.pre)
        IN /\ attr.value = attr.last.post
           /\ CASE attr.last.op = "changeStatus" ->
                     /\ (attr.last.outcome = "threw") = ~Includes(s, attr.last.arg)
                     /\ attr.last.outcome = "threw" => attr.last.post = attr.last.pre
                     /\ attr.last.outcome = "changed" => attr.last.post = attr.last.arg
                [] attr.last.op = "changeToNextStatus" -> attr.last.post = s[(i % n) + 1]
                [] OTHER -> attr.last.post = s[((i + n - 2) % n) + 1]

----------------------------------------------------------------------------
(* C24 *)

\* C24: in one dispatch, with or without a target, no listener is invoked twice in
\* the same phase, nor twice by the error sweep.
OncePerPhase ==
    \A f \in Frames :
        \A i, j \in 1..Len(f.calls) :
            (/\ i < j
             /\ f.calls[i].invoked /\ f.calls[j].invoked
             /\ f.calls[i].cid # "ing" /\ f.calls[i].cid = f.calls[j].cid
             /\ f.calls[i].kind = f.calls[j].kind)
                => f.calls[i].phase # f.calls[j].phase

----------------------------------------------------------------------------
(* C26 *)

----------------------------------------------------------------------------
(* C28 *)

\* C28: the list of a collection attribute never holds an element twice, whatever
\* add, remove and replace calls were made.
CollectionHasNoDuplicates ==
    attr.kind = "collection" =>
        \A i, j \in 1..Len(attr.value.a) : i # j => attr.value.a[i] # attr.value.a[j]

----------------------------------------------------------------------------
(* C29 *)

\* C29: the status of a status attribute is a member of its statusList, from its
\* construction on and whatever mutators were called, vetoed or not.
StatusIsMember ==
    attr.kind = "status" => Includes(attr.statusList, attr.value)

----------------------------------------------------------------------------
(* C21 *)

\* C21: issue(order, filter) has invoked the method on every element the filter
\* passes once the ing function of its "issueOrder" dispatch has returned, and
\* issue(order) without a filter has invoked it on every element when it returns,
\* having made no dispatch.
IssueInvokesOnTargets ==
    (attr.kind = "collection" /\ attr.last.op = "issue") =>
        /\ attr.last.arg = Undefined =>
              /\ stack = <<>>
              /\ attr.issued = attr.value.a
        /\ (attr.last.arg # Undefined /\ Mutated) =>
              /\ Mutation.event = "issueOrder"
              /\ attr.issued = Targets(attr.value.a, attr.last.arg)

----------------------------------------------------------------------------
(* C27 *)

\* the calls of frame f that threw: a listener that throws, or the ing function of a
\* mutator whose raw result clamp rejects
Threw(f) ==
    {i \in 1..Len(f.calls) :
        /\ f.calls[i].kind # "error"
        /\ IF f.calls[i].cid = "ing" THEN attr.last.outcome = "failed"
           ELSE f.calls[i].invoked /\ Card(f.calls[i].cid).ret = "throw"}

\* C27: when a listener or the ing function of a mutator's dispatch has thrown, no
\* further listener of that or a later phase runs and no dispatch is chained; after a
\* throw in before or begin the ing function never ran and the attribute has its old
\* value; after a throw of ing or in end the value the ing function assigned stays.
ThrowStopsWithoutRollback ==
    \A k \in 1..Len(stack) :
        LET f == stack[k] IN
        \A i \in Threw(f) :
            f.ing = "mutator" =>
                /\ \A j \in (i + 1)..Len(f.calls) : f.calls[j].kind = "error"
                /\ f.nested = <<>> /\ k = Len(stack)
                /\ f.calls[i].phase \in {"before", "begin"} =>
                      /\ ~f.currentData
                      /\ attr.value = f.preData /\ attr.last.outcome = "called"
                /\ f.calls[i].phase = "ing" =>
                      /\ ~f.currentData
                      /\ attr.value = NumberOp(f.type, f.preData, f.context)
                /\ f.calls[i].phase = "end" =>
                      /\ attr.value = f.data /\ attr.last.outcome = "changed"
                      /\ attr.value =
                            getIntegerStrategy(attr.integerStrategy,
                                clamp(NumberOp(f.type, f.preData, f.context),
                                      BoundNow(attr.min, attr.limit),
                                      BoundNow(attr.max, attr.limit)))

\* an end listener threw after add(2) had made the value 2: the value stays 2, the
\* end listener after it and the registered after listener were not called
WitnessThrowStopsWithoutRollback ==
    /\ Len(stack) = 1 /\ Top.ing = "mutator" /\ Top.outcome = "caught"
    /\ Top.type = "add" /\ Top.preData = Number(0, 1) /\ attr.value = Number(2, 1)
    /\ {"nx", "ne", "na", "nE"} \subseteq RegisteredIn(targetListenerMap)
    /\ \E i \in Threw(Top) : Top.calls[i].cid = "nx"
    /\ \E j \in 1..Len(Top.calls) : Top.calls[j].cid = "nE" /\ Top.calls[j].kind = "error"

----------------------------------------------------------------------------
(* C25 *)

\* C25: the parentEvent of a dispatch is the view of the dispatch that was in progress
\* when it started, null for a top-level one; currentEvent is the view of the
\* innermost dispatch in progress, and when a dispatchSync call has ended, however it
\* ended, currentEvent is what it was before the call: null when none is in progress.
CurrentEventFollowsStack ==
    /\ stack = <<>> => currentEvent = <<>>
    /\ \A k \in 1..Len(stack) :
          stack[k].parentEvent = IF k = 1 THEN <<>> ELSE EventInfo(stack[k - 1])
    /\ stack # <<>> =>
          currentEvent = IF Top.pc = "return" THEN Top.parentEvent ELSE EventInfo(Top)

-----------------------------------------------------------------------------
(* C22 *)

\* the call recorded as a breaks a precondition of on(), off() or dispatchSync()
BreaksPrecondition(a) ==
    CASE a.op = "on" ->
            \/ Card(a.card).missing # {}
            \/ /\ Card(a.card).phase \notin {"before", "begin", "end", "after"}
               /\ ~(Card(a.card).event = "error" /\ Card(a.card).phase \in {"ing", "all"})
      [] a.op = "off" ->
            /\ Card(a.card).phase \notin {"before", "begin", "end", "after"}
            /\ ~(Card(a.card).event = "error" /\ Card(a.card).phase \in {"ing", "all"})
      [] a.op = "dispatchSync" ->
            \/ ~a.call.eventIsString
            \/ a.call.ing \notin {"fn", "throws", "default", "mutator"}
            \/ ~a.call.optionsIsPlain
      [] OTHER -> FALSE

\* C22: a call of on() with a listener that lacks name or callback, of on() or
\* off() with a phase outside before|begin|end|after (ing and all count for the
\* event "error" only), or of dispatchSync with an event that is no string, an ing
\* that is no function or options that are no plain object throws at the call: no
\* dispatch is running after it, no dispatch that runs was started by such a call,
\* and the registry is the one the call found.
PreconditionViolationsChangeNothing ==
    /\ api # <<>> /\ BreaksPrecondition(LastApi) =>
          /\ LastApi.threw
          /\ stack = <<>>
          /\ targetListenerMap = LastApi.before
    /\ \A c \in RegisteredIn(targetListenerMap) :
          ~BreaksPrecondition([op |-> "on", card |-> c])
    /\ stack # <<>> =>
          ~BreaksPrecondition([op |-> "dispatchSync", call |-> stack[1].options])

\* with listeners registered, on() has refused a listener on "e" in phase "ing" and
\* the registry is as before; a listener on "error" in phase "ing" is registered
WitnessPreconditionViolationsChangeNothing ==
    /\ api # <<>>
    /\ LastApi.op = "on" /\ LastApi.card = "q1" /\ LastApi.threw
    /\ {"r1", "eI"} \subseteq RegisteredIn(targetListenerMap)
    /\ targetListenerMap = LastApi.before
    /\ stack = <<>>

-----------------------------------------------------------------------------
(* C23 *)

-----------------------------------------------------------------------------
(* C30 *)

\* the after listeners among cards that the dispatch a record of one of S asks for
\* calls, and those that theirs call, and so on
RECURSIVE ChainFrom(_, _)
ChainFrom(cards, S) ==
    LET Asked(c) == {d \in cards :
                        /\ Card(d).phase = "after" /\ Card(d).ret = "chain"
                        /\ Card(d).event = Card(c).chain.event
                        /\ Card(d).target \in {Card(c).chain.target, NullTarget}}
        T == S \cup UNION {Asked(c) : c \in S}
    IN IF T = S THEN S ELSE ChainFrom(cards, T)

\* no after listener of the run returns a record that leads, directly or through the
\* records of other after listeners, to a dispatch that calls it again
ChainIsFinite ==
    \A c \in {d \in scenario.cards : Card(d).phase = "after" /\ Card(d).ret = "chain"} :
        c \notin ChainFrom(scenario.cards \ {c}, {c}) \ {c}
        /\ ~(Card(c).chain.event = Card(c).event
             /\ Card(c).target \in {Card(c).chain.target, NullTarget})

\* the outermost dispatch is about to call, in its after loop, a listener whose record
\* asks for the same event on the same target
Redispatching ==
    /\ stack # <<>>
    /\ stack[1].phase = "after" /\ stack[1].pc = "sweep"
    /\ \E c \in {d \in RegisteredIn(targetListenerMap) : Card(d).ret = "chain"} :
          /\ \E i \in stack[1].idx..Len(stack[1].snap) : stack[1].snap[i] = c
          /\ Card(c).chain.event = stack[1].event
          /\ Card(c).chain.target = stack[1].target
          /\ Card(c).chain.isString /\ Card(c).chain.ing # "notfn"
          /\ ~Card(c).once /\ Card(c).filter = "none"

====
